---- MODULE Spec2Model ----
(***************************************************************************)
(* A model of the ulta load-testing agent: the Cancellation object, the    *)
(* TankClient wrapper around the generator worker and the UltaService      *)
(* control loop (serve -> wait_for_a_job -> execute_job -> serve_lt_job -> *)
(* publish_artifacts), with the threads that notify Cancellation.          *)
(***************************************************************************)
EXTENDS Integers, Sequences, FiniteSets, TLC

(***************************************************************************)
(* Bounds of the model.                                                    *)
(***************************************************************************)
\* how many jobs the control plane hands out in one run
MaxJobs == 2

(***************************************************************************)
(* Program constants.                                                      *)
(***************************************************************************)
\* CancellationType (IntEnum)
NOT_SET == 0
GRACEFUL == 1
FORCED == 2

\* the two NamedService entries run_service passes as artifact_uploaders
NumUploaders == 2

\* workers _register_workers adds: TrailUploader and MonitoringUploader
NumBackgroundWorkers == 2

\* FINISHED_STATUSES_TO_EXIT_CODE_MAPPING: finished status -> exit code
FINISHED_STATUSES_TO_EXIT_CODE_MAPPING ==
    [s \in {"AUTOSTOPPED", "FAILED", "FINISHED", "STOPPED"} |->
        CASE s = "AUTOSTOPPED" -> 20
          [] s = "FAILED" -> 1
          [] s = "FINISHED" -> 0
          [] s = "STOPPED" -> 0]

FinishedStatuses == DOMAIN FINISHED_STATUSES_TO_EXIT_CODE_MAPPING

\* exit_code None
NoExitCode == -1

INTERNAL_ERROR_TYPE == "internal"

(***************************************************************************)
(* Exceptions: the classes the control loop tells apart, with the base     *)
(* classes isinstance() sees.                                              *)
(***************************************************************************)
TransientBackendErrors ==
    {"InternalServerError", "ServiceUnavailable", "GatewayTimeout", "TooManyRequests"}

RejectionErrors == {"FailedPrecondition", "NotFound"}

BackendErrors == TransientBackendErrors \cup RejectionErrors

Exceptions ==
    BackendErrors \cup
    {"JobStoppedError", "CancellationRequest", "TankError", "ValueError", "RuntimeError"}

\* the classes an exception is an instance of (google.api_core hierarchy)
Bases(e) ==
    {e} \cup
    (IF e \in {"InternalServerError", "ServiceUnavailable", "GatewayTimeout"}
        THEN {"ServerError"} ELSE {}) \cup
    (IF e \in {"TooManyRequests", "FailedPrecondition", "NotFound"}
        THEN {"ClientError"} ELSE {})

isinstance(e, classes) == Bases(e) \cap classes # {}

LOADTESTING_UNAVAILABLE_ERRORS == {"ServerError", "TooManyRequests"}

(***************************************************************************)
(* JobStatus and Job.                                                      *)
(***************************************************************************)
interpret_exit_code(exit_code, status) ==
    IF exit_code # NoExitCode THEN exit_code
    ELSE IF status \in FinishedStatuses
        THEN FINISHED_STATUSES_TO_EXIT_CODE_MAPPING[status]
        ELSE NoExitCode

from_status(status, error_type) ==
    [status |-> status, error_type |-> error_type,
     exit_code |-> interpret_exit_code(NoExitCode, status)]

finished(job_status) == job_status.status \in FinishedStatuses

NoJob == [id |-> 0, tank_job_id |-> 0,
          last_status |-> from_status("JOB_STATUS_UNSPECIFIED", "None")]

NewJob(id) == [NoJob EXCEPT !.id = id]

update_status(j, status) == [j EXCEPT !.last_status = status]

(***************************************************************************)
(* State.                                                                  *)
(***************************************************************************)
VARIABLES
    current_type,     \* Cancellation._current_type
    cancel_lock,      \* Cancellation._lock: "free" or the thread inside notify
    notify_level,     \* the level argument of the latest notify call
    forced_notified,  \* a notify(reason, FORCED) call has returned
    tank_worker,      \* TankClient.tank_worker
    shooting_event,   \* TankClient._tank_worker_start_shooting_event
    background_workers, \* len(TankClient._background_workers)
    lock_dir_locked,  \* Lock.is_locked(lock_dir): another process holds the lock
    pc,               \* where the control-loop thread is
    job,              \* the Job the control loop works on
    next_id,          \* id of the next job of the control plane
    exc,              \* the exception in flight in the control loop
    done,             \* serve_lt_job's local `done`
    upl_idx,          \* publish_artifacts: uploader the loop is at
    upl_applicable,   \* uploaders whose can_publish(job) was true
    upl_invoked,      \* uploaders whose publish_artifacts(job) was called
    upl_failed,       \* uploaders whose publish_artifacts(job) raised
    upl_reported,     \* uploaders for whose failure a post-job error was claimed
    override_status,  \* UltaService._override_status
    rpc,              \* the control-plane call made by the control loop's last step
    tank_calls,       \* the last two calls the control loop made on tank_client
    finished_claimed, \* jobs for which a finished status was claimed
    signals,          \* termination signals whose handler has been entered
    active_errors,    \* State._active_errors: the (stage, message) pairs stored
    state_stack,      \* State._state_stack
    obs_frames,       \* the observe scopes a thread is inside, innermost last
    obs_exc,          \* the exception in flight in that thread
    obs_last,         \* how the latest observe call of that thread went
    clock,            \* the time now() and datetime.now() return
    sources,          \* Reporter._sources: the items waiting in each queue
    next_item,        \* number of the next item a producer puts into a queue
    unsent,           \* Reporter._unsent_messages: one deque per handler
    handler_managers, \* Reporter._handler_managers: one _AttemptManager per handler
    delivered,        \* per handler, the items handle() accepted, in order
    lost,             \* per handler, the items dropped as stale or evicted
    last_report,      \* what the latest report() call did
    stop_set,         \* Reporter.run has left its scope: the worker thread is over
    worker_pc,        \* where the worker thread of run_background_worker is
    run_pc,           \* where the thread that entered Reporter.run is
    chop_data,        \* the list a caller passes to _chop
    chop_size,        \* the size it passes
    chop_result,      \* what _chop returned
    chop_pc,          \* whether _chop has returned
    provided_status,  \* what StatusReporter.tank_client.get_tank_status() returns
    sr_run_pc,        \* where the thread that entered StatusReporter.run is
    sr_worker_pc,     \* where the worker thread of StatusReporter._run is
    sr_final_claims,  \* number of them made by the finally clause of run
    sr_last,          \* the latest report_tank_status call and what it claimed
    mutation_lock,    \* the mutation lock: "free" or who holds it
    exec_pc,          \* whether the main path is running a job
    hc_pc,            \* where the healthcheck thread is in _check_free_space
    hc_req,           \* the requirement the healthcheck checks next
    hc_held,          \* the healthcheck thread holds the mutation lock
    hc_last,          \* how the latest free-space check went
    cl_variant,       \* which FilesystemCleanup class the object is of
    cl_job,           \* FilesystemCleanup._job
    cl_files,         \* the ctime of every path, or Absent
    cl_forbiden,      \* FilesystemCleanup._forbiden_dirs
    cl_step,          \* the step cleanup() is at
    cl_loop,          \* the step is inside its loop over the collected objects
    cl_objects,       \* the collected objects the loop has not come to yet
    cl_deleted,       \* the paths the cleanup has deleted
    st_errors,        \* State._active_errors as a dictionary: key -> StateError
    st_now,           \* the number of error calls made, the updated_at of the latest
    st_threads,       \* the threads that call State
    th_pc,            \* per thread, where it is in its State call
    th_stage,         \* per thread, the stage argument of its cleanup call
    th_values,        \* per thread, the values its cleanup call iterates over
    st_last,          \* the latest State.error or State.cleanup call that returned
    st_seen,          \* what the latest current_errors() and ok returned
    reg_config,       \* the UltaConfig the agent service is created from
    reg_file,         \* what the file at agent_id_file holds, or None
    reg_agent,        \* LoadtestingAgentService.agent
    reg_registered,   \* LoadtestingAgentService._agent_registered
    reg_calls,        \* the calls made on agent_client, in order
    reg_last,         \* how the latest register() call ended
    pjs_json,         \* the finish status file parse_job_status is given
    pjs_result,       \* the JobStatus it returned
    tc_pc,            \* where execute_job is: idle, monitor (serve_lt_job), finally
    tc_job,           \* the number of the job execute_job works on
    tc_worker,        \* TankClient.tank_worker: None, alive or dead
    tc_event,         \* TankClient._tank_worker_start_shooting_event
    tc_background,    \* TankClient._background_workers
    tc_finalizers,    \* TankClient._finalizers
    tc_finished,      \* the uploaders in the list whose `finished` event is set
    tc_started,       \* the uploaders in the list whose thread was started
    tc_queue,         \* the finalizers whose queue holds an ImbalanceEntry
    tc_signals,       \* the secs of the RUN_IN signals served for this job
    tc_log,           \* what the client did since this job's prepare_job, in order
    tc_finishes,      \* the finish() calls since this job's prepare_job
    tc_last_finish,   \* what the latest finish() call did, in order
    tc_last,          \* the latest call on the client and the exception it raised
    api_pc,           \* where the main thread is inside UltaService.serve
    api_stack,        \* State._state_stack shared by the threads
    api_type,         \* Cancellation._current_type
    api_hc,           \* whether the healthcheck thread is inside its observe scope
    api_response,     \* the latest answer of the admin API, with the loop position it was given at
    su_pc,            \* where the uploader thread is: get, send or finished
    su_entries,       \* entries the thread has taken from data_queue
    su_attempts,      \* send_data calls made for the entry in hand
    su_timeouts,      \* timeouts left in the api_timeouts generator
    su_interrupted,   \* DataUploader.interrupted
    su_last,          \* how the latest pass of _send_with_retry ended
    lb_context,       \* the context_labels of the log record
    lb_args,          \* the args of the log record
    lb_max,           \* LogMessageProcessor._max_labels_size
    lb_done,          \* whether the record has been prepared
    lb_result         \* what _prepare_labels made of the record

cancellation_vars == <<current_type, cancel_lock, notify_level, forced_notified>>
tank_vars == <<tank_worker, shooting_event, background_workers>>
publish_vars == <<upl_idx, upl_applicable, upl_invoked, upl_failed, upl_reported, override_status>>
service_vars == <<pc, job, next_id, exc, done, publish_vars, rpc, tank_calls, finished_claimed>>
state_vars == <<active_errors, state_stack>>
observer_vars == <<obs_frames, obs_exc, obs_last>>
run_vars == <<worker_pc, run_pc>>
reporter_vars == <<clock, sources, next_item, unsent, handler_managers, delivered, lost,
                   last_report, stop_set, run_vars>>
agent_vars == <<tank_vars, lock_dir_locked, service_vars>>
chop_vars == <<chop_data, chop_size, chop_result, chop_pc>>
status_vars == <<provided_status, sr_run_pc, sr_worker_pc, sr_final_claims, sr_last>>
fs_vars == <<mutation_lock, exec_pc, hc_pc, hc_req, hc_held, hc_last>>
cleanup_vars == <<cl_variant, cl_job, cl_files, cl_forbiden, cl_step, cl_loop, cl_objects,
                  cl_deleted>>
threads_vars == <<st_errors, st_now, st_threads, th_pc, th_stage, th_values, st_last, st_seen>>
reg_vars == <<reg_config, reg_file, reg_agent, reg_registered, reg_calls, reg_last>>
pjs_vars == <<pjs_json, pjs_result>>
tc_vars == <<tc_pc, tc_job, tc_worker, tc_event, tc_background, tc_finalizers,
             tc_finished, tc_started, tc_queue, tc_signals, tc_log, tc_finishes,
             tc_last_finish, tc_last>>
api_vars == <<api_pc, api_stack, api_type, api_hc, api_response>>
su_vars == <<su_pc, su_entries, su_attempts, su_timeouts, su_interrupted, su_last>>
lb_vars == <<lb_context, lb_args, lb_max, lb_done, lb_result>>
late_vars == <<reg_vars, pjs_vars, tc_vars, api_vars, su_vars, lb_vars>>
reg_others == <<pjs_vars, tc_vars, api_vars, su_vars, lb_vars>>
pjs_others == <<reg_vars, tc_vars, api_vars, su_vars, lb_vars>>
tc_others == <<reg_vars, pjs_vars, api_vars, su_vars, lb_vars>>
api_others == <<reg_vars, pjs_vars, tc_vars, su_vars, lb_vars>>
su_others == <<reg_vars, pjs_vars, tc_vars, api_vars, lb_vars>>
lb_others == <<reg_vars, pjs_vars, tc_vars, api_vars, su_vars>>
early_vars == <<cancellation_vars, agent_vars, signals, state_vars, observer_vars,
                reporter_vars, chop_vars, status_vars, fs_vars, cleanup_vars, threads_vars>>
other_vars == <<fs_vars, cleanup_vars, threads_vars, late_vars>>
rest_vars == <<status_vars, other_vars>>
more_vars == <<chop_vars, rest_vars>>
aux_vars == <<signals, state_vars, observer_vars, reporter_vars, more_vars>>
vars == <<cancellation_vars, tank_vars, lock_dir_locked, service_vars, aux_vars>>


(***************************************************************************)
(* Cancellation.                                                           *)
(***************************************************************************)
\* the threads that call Cancellation.notify: the signal handler, the admin
\* API's /shutdown handler and the status reporter's worker
Notifiers == {"signal", "api", "reporter"}

is_set(cancellation_type) == current_type >= cancellation_type

\* TRUE when raise_on_set raises CancellationRequest
raise_on_set(cancellation_type) == is_set(cancellation_type)

\* the body of notify under the lock: the new value of _current_type
notify_update_unconditional(cur, level) == level

notify_update(cur, level) == IF level > cur THEN level ELSE cur

\* the level the signal handler `terminate` passes to notify, 0 for no call
\* a handler that asks for FORCED at the first signal already
terminate_level_forced_at_once ==
    IF is_set(FORCED) THEN NOT_SET ELSE FORCED

\* terminate: the level the signal handler passes to notify (NOT_SET when
\* it only logs)
terminate_level ==
    IF is_set(FORCED) THEN NOT_SET
    ELSE IF is_set(GRACEFUL) THEN FORCED
    ELSE GRACEFUL

\* the levels thread t can pass to notify
NotifyLevels(t) ==
    CASE t = "signal" -> {terminate_level} \ {NOT_SET}
      [] t = "api" -> {GRACEFUL, FORCED}
      [] t = "reporter" -> {FORCED}

\* notify: `with self._lock:` entered by thread t with argument level
notify_enter(t, level) ==
    /\ cancel_lock = "free"
    /\ cancel_lock' = t
    /\ notify_level' = level
    /\ UNCHANGED <<current_type, forced_notified>>

\* notify: the statements under the lock, and the release of the lock
notify_exit(t) ==
    /\ cancel_lock = t
    /\ current_type' = notify_update(current_type, notify_level)
    /\ forced_notified' = (forced_notified \/ notify_level = FORCED)
    /\ cancel_lock' = "free"
    /\ notify_level' = notify_level

NotifyEnter ==
    /\ \E t \in Notifiers : \E level \in NotifyLevels(t) : notify_enter(t, level)
    /\ UNCHANGED <<tank_vars, lock_dir_locked, service_vars>>
    /\ UNCHANGED aux_vars

NotifyExit ==
    /\ \E t \in Notifiers : notify_exit(t)
    /\ UNCHANGED <<tank_vars, lock_dir_locked, service_vars>>
    /\ UNCHANGED aux_vars

(***************************************************************************)
(* TankClient.                                                             *)
(***************************************************************************)
NoWorker == [exists |-> FALSE, alive |-> FALSE, status |-> "None", test_id |-> 0]

is_alive(w) == w.exists /\ w.alive

\* _is_test_session_running that looks at the lock directory only
is_test_session_running_lock_only(w, locked) == locked

is_test_session_running(w, locked) ==
    IF is_alive(w) THEN w.status # "FINISHED" ELSE locked

is_test_session_preparing(w) == is_alive(w) /\ w.status = "PREPARING"

is_active_test(w, test_id) ==
    w.exists /\ w.test_id = test_id /\ w.status # "FINISHED"

get_tank_status(w, locked) ==
    IF is_test_session_preparing(w) THEN "PREPARING_TEST"
    ELSE IF is_test_session_running(w, locked) THEN "TESTING"
    ELSE "READY_FOR_TEST"

is_idle(w, locked) == get_tank_status(w, locked) \notin {"PREPARING_TEST", "TESTING"}

\* what worker.stop() followed by join(timeout) can leave: the worker has
\* stopped, or it is still running when the join times out
StopOutcomes(w) ==
    IF is_alive(w)
        THEN {[w EXCEPT !.alive = FALSE, !.status = "FINISHED"], w}
        ELSE {w}

\* the statuses get_job_status can return for tank job test_id: the live
\* worker's status, or the finished status read from finish_status.yaml
\* (FINISHED too when the directory or the file is missing)
JobStatuses(w, test_id) ==
    IF is_active_test(w, test_id)
        THEN {from_status(w.status, "None")}
        ELSE {from_status("FINISHED", "None"), from_status("AUTOSTOPPED", "None"),
              from_status("FAILED", "None"), from_status("FAILED", INTERNAL_ERROR_TYPE)}

\* prepare_job(job): outcome is how the steps after the first check end:
\* "ok"; "RuntimeError", an exception raised while the config is dumped;
\* "TankError", a ValidationError or LockError raised by the TankWorker
\* constructor; "TankError_worker", one raised by collect_files or
\* go_to_test_folder, when the new worker is assigned already.  The result
\* is the exception raised ("none" when it returns), the job and the
\* TankClient fields.
prepare_job(j, w, ev, bg, locked, outcome) ==
    IF is_test_session_running(w, locked)
        THEN [exc |-> "TankError", job |-> j, worker |-> w, event |-> ev, bg |-> bg]
    ELSE IF outcome = "RuntimeError"
        THEN [exc |-> "RuntimeError", job |-> j, worker |-> w, event |-> ev, bg |-> bg]
    ELSE IF outcome = "TankError"
        THEN [exc |-> "TankError", job |-> j, worker |-> w, event |-> "clear", bg |-> bg]
    ELSE IF outcome = "TankError_worker"
        THEN [exc |-> "TankError", job |-> j,
              worker |-> [exists |-> TRUE, alive |-> FALSE, status |-> "PREPARING",
                          test_id |-> j.id],
              event |-> "clear", bg |-> bg]
    ELSE [exc |-> "none",
          job |-> [j EXCEPT !.tank_job_id = j.id],
          worker |-> [exists |-> TRUE, alive |-> TRUE, status |-> "PREPARING", test_id |-> j.id],
          event |-> "clear",
          bg |-> bg + NumBackgroundWorkers]

PrepareOutcomes == {"ok", "TankError", "TankError_worker", "RuntimeError"}

\* run_job: the exception raised and the event
run_job(ev) ==
    IF ev = "None" THEN [exc |-> "TankError", event |-> ev]
    ELSE [exc |-> "none", event |-> "set"]

\* cleanup: every field is reset (a live worker is killed first)
cleanup == [worker |-> NoWorker, event |-> "None", bg |-> 0]

(***************************************************************************)
(* The generator worker and the lock directory (the environment).          *)
(***************************************************************************)
\* the worker process moves on: it waits for the shooting event while
\* preparing, shoots, finishes (also from PREPARING, when preparing fails)
\* and exits
WorkerProgress ==
    /\ is_alive(tank_worker)
    /\ \/ /\ tank_worker.status = "PREPARING"
          /\ shooting_event = "set"
          /\ tank_worker' = [tank_worker EXCEPT !.status = "RUNNING"]
       \/ /\ tank_worker.status \in {"PREPARING", "RUNNING"}
          /\ tank_worker' = [tank_worker EXCEPT !.status = "FINISHED"]
       \/ /\ tank_worker.status = "FINISHED"
          /\ tank_worker' = [tank_worker EXCEPT !.alive = FALSE]
    /\ UNCHANGED <<cancellation_vars, shooting_event, background_workers,
                   lock_dir_locked, service_vars>>
    /\ UNCHANGED aux_vars

\* another process takes or releases the generator lock in lock_dir
LockDirChange ==
    /\ lock_dir_locked' = ~lock_dir_locked
    /\ UNCHANGED <<cancellation_vars, tank_vars, service_vars>>
    /\ UNCHANGED aux_vars


(***************************************************************************)
(* Observer scopes of the control loop.                                    *)
(***************************************************************************)
\* an observer that does not look at the cancellation when a scope is entered
observe_enter_never_raises == FALSE

\* entering a scope raises CancellationRequest when cancellation is FORCED
observe_enter_raises == raise_on_set(FORCED)

\* whether observe(suppress=..., exceptions=...) swallows exception e raised
\* inside the scope: a CancellationRequest always propagates
observe_suppresses(e, suppress, exceptions) ==
    /\ e # "CancellationRequest"
    /\ suppress
    /\ isinstance(e, exceptions)

\* sustain_job with TooManyRequests left out of the tolerated errors
sustain_job_exceptions_server_only == {"ServerError", "InternalServerError"}

\* the exceptions sustain_job hands to the observer
sustain_job_exceptions == LOADTESTING_UNAVAILABLE_ERRORS \cup {"InternalServerError"}

\* TRUE when the sustain_job scope swallows e
sustain_job(e) == observe_suppresses(e, TRUE, sustain_job_exceptions)

(***************************************************************************)
(* UltaService: helpers.                                                   *)
(***************************************************************************)
NoCall == [op |-> "none", job |-> 0, status |-> "None", error_type |-> "None", res |-> "None"]

\* loadtesting_client.claim_job_status(job.id, status, error, error_type),
\* which returned (res = "ok") or raised res
ClaimCall(j, status, error_type, res) ==
    [op |-> "claim_job_status", job |-> j.id, status |-> status,
     error_type |-> error_type, res |-> res]

OtherCall(op, j, res) == [NoCall EXCEPT !.op = op, !.job = j.id, !.res = res]

RpcResults == {"ok"} \cup BackendErrors

\* the window of the last two calls made on tank_client
Push(calls, c) == IF Len(calls) < 2 THEN Append(calls, c) ELSE <<calls[2], c>>

\* the error type get_job claims for a job it could not build
get_job_error_type(e) ==
    CASE e = "JSONDecodeError" -> "JOB_CONFIG"
      [] e = "InvalidJobDataError" -> "JOB_AMMO"
      [] OTHER -> "UNKNOWN"

GetJobFailures == {"JSONDecodeError", "InvalidJobDataError", "RuntimeError"}

\* execute_job's except clauses: the exceptions that have one
HandledByExecuteJob ==
    {"JobStoppedError", "CancellationRequest", "FailedPrecondition", "NotFound", "TankError"}

\* the except clause of FailedPrecondition and NotFound claiming a status
\* that is not a finished one
execute_job_handler_status_unspecified(e) ==
    CASE e = "JobStoppedError" -> from_status("STOPPED", "None")
      [] e = "CancellationRequest" -> from_status("FAILED", "INTERRUPTED")
      [] e \in {"FailedPrecondition", "NotFound"} -> from_status("JOB_STATUS_UNSPECIFIED", "FAILED")
      [] e = "TankError" -> from_status("FAILED", INTERNAL_ERROR_TYPE)

\* the except clauses with INTERRUPTED and 'internal' swapped
execute_job_handler_status_swapped(e) ==
    CASE e = "JobStoppedError" -> from_status("STOPPED", "None")
      [] e = "CancellationRequest" -> from_status("FAILED", INTERNAL_ERROR_TYPE)
      [] e \in {"FailedPrecondition", "NotFound"} -> from_status("FAILED", "FAILED")
      [] e = "TankError" -> from_status("FAILED", "INTERRUPTED")

\* the status the except clause of e claims
execute_job_handler_status(e) ==
    CASE e = "JobStoppedError" -> from_status("STOPPED", "None")
      [] e = "CancellationRequest" -> from_status("FAILED", "INTERRUPTED")
      [] e \in {"FailedPrecondition", "NotFound"} -> from_status("FAILED", "FAILED")
      [] e = "TankError" -> from_status("FAILED", INTERNAL_ERROR_TYPE)

\* sustain_service that lets an exception other than CancellationRequest out
sustain_service_only_cancellation(e) == e = "CancellationRequest"

\* TRUE when sustain_service swallows e: both of its except clauses do
sustain_service(e) == e = "CancellationRequest" \/ e \in Exceptions \cup GetJobFailures

FinishedClaimed(j, status) ==
    IF finished(status) THEN finished_claimed \cup {j.id} ELSE finished_claimed


(***************************************************************************)
(* UltaService.serve and wait_for_a_job.                                   *)
(***************************************************************************)
\* serve: `while not self.cancellation.is_set()`; the loop is left and serve
\* returns, or a new iteration starts
serve ==
    /\ pc = "serve"
    /\ pc' = IF is_set(GRACEFUL) THEN "stopped" ELSE "wait_for_a_job"
    /\ exc' = "none"
    /\ job' = NoJob
    /\ rpc' = NoCall
    /\ tank_calls' = << >>
    /\ UNCHANGED <<cancellation_vars, tank_vars, lock_dir_locked, next_id, done,
                   publish_vars, finished_claimed>>
    /\ UNCHANGED aux_vars

\* wait_for_a_job whose loop does not look at the cancellation
wait_for_a_job_without_check ==
    /\ pc = "wait_for_a_job"
    /\ exc' = exc
    /\ pc' = "get_job"
    /\ rpc' = NoCall
    /\ UNCHANGED <<cancellation_vars, tank_vars, lock_dir_locked, job, next_id, done,
                   publish_vars, tank_calls, finished_claimed>>
    /\ UNCHANGED aux_vars

\* wait_for_a_job: self.cancellation.raise_on_set() at the top of the loop
wait_for_a_job ==
    /\ pc = "wait_for_a_job"
    /\ IF raise_on_set(GRACEFUL)
          THEN exc' = "CancellationRequest" /\ pc' = "sustain_service"
          ELSE exc' = exc /\ pc' = "get_job"
    /\ rpc' = NoCall
    /\ UNCHANGED <<cancellation_vars, tank_vars, lock_dir_locked, job, next_id, done,
                   publish_vars, tank_calls, finished_claimed>>
    /\ UNCHANGED aux_vars

\* wait_for_a_job: the observer scope around get_job, and get_job up to the
\* point where the Job is built
get_job ==
    /\ pc = "get_job"
    /\ IF observe_enter_raises
          THEN /\ exc' = "CancellationRequest"
               /\ pc' = "sustain_service"
               /\ rpc' = NoCall
               /\ UNCHANGED <<job, next_id>>
          ELSE \/ \* NotFound, or a message without id: no job, sleep and poll again
                  /\ rpc' = OtherCall("get_job", NoJob, "NotFound")
                  /\ pc' = "wait_for_a_job"
                  /\ UNCHANGED <<job, next_id, exc>>
               \/ \* another error of the call leaves the scope, which does not suppress
                  \E e \in BackendErrors \ {"NotFound"} :
                    /\ rpc' = OtherCall("get_job", NoJob, e)
                    /\ exc' = e
                    /\ pc' = "sustain_service"
                    /\ UNCHANGED <<job, next_id>>
               \/ \* a job, built without error
                  /\ next_id <= MaxJobs
                  /\ job' = NewJob(next_id)
                  /\ next_id' = next_id + 1
                  /\ rpc' = OtherCall("get_job", job', "ok")
                  /\ pc' = "await_tank_is_ready"
                  /\ exc' = exc
               \/ \* a job whose config or test data cannot be loaded
                  \E e \in GetJobFailures :
                    /\ next_id <= MaxJobs
                    /\ job' = NewJob(next_id)
                    /\ next_id' = next_id + 1
                    /\ rpc' = OtherCall("get_job", job', "ok")
                    /\ exc' = e
                    /\ pc' = "get_job_except"
    /\ UNCHANGED <<cancellation_vars, tank_vars, lock_dir_locked, done,
                   publish_vars, tank_calls, finished_claimed>>
    /\ UNCHANGED aux_vars

\* get_job's except clauses: claim_job_failed, then return None (poll again),
\* or re-raise for an unknown exception; an error of the claim itself leaves
\* get_job and the observer scope
get_job_except ==
    /\ pc = "get_job_except"
    /\ \E res \in RpcResults :
        LET status == from_status("FAILED", get_job_error_type(exc)) IN
        /\ job' = update_status(job, status)
        /\ rpc' = ClaimCall(job, status.status, status.error_type, res)
        /\ finished_claimed' = FinishedClaimed(job, status)
        /\ IF res # "ok"
              THEN exc' = res /\ pc' = "sustain_service"
              ELSE IF get_job_error_type(exc) = "UNKNOWN"
                  THEN exc' = exc /\ pc' = "sustain_service"
                  ELSE exc' = "none" /\ pc' = "wait_for_a_job"
    /\ UNCHANGED <<cancellation_vars, tank_vars, lock_dir_locked, next_id, done,
                   publish_vars, tank_calls>>
    /\ UNCHANGED aux_vars

\* sustain_service: the except clauses around one iteration of serve
sustain_service_exit ==
    /\ pc = "sustain_service"
    /\ pc' = IF sustain_service(exc) THEN "serve" ELSE "raised"
    /\ rpc' = NoCall
    /\ UNCHANGED <<cancellation_vars, tank_vars, lock_dir_locked, job, next_id, exc, done,
                   publish_vars, tank_calls, finished_claimed>>
    /\ UNCHANGED aux_vars


(***************************************************************************)
(* UltaService.execute_job.                                                *)
(***************************************************************************)
\* await_tank_is_ready: return when the tank is idle; otherwise one turn of
\* the waiting loop: raise on cancellation, TankError on timeout, or sleep
await_tank_is_ready ==
    /\ pc = "await_tank_is_ready"
    /\ IF is_idle(tank_worker, lock_dir_locked)
          THEN pc' = "prepare_job" /\ exc' = exc
          ELSE IF raise_on_set(GRACEFUL)
              THEN pc' = "except" /\ exc' = "CancellationRequest"
              ELSE \/ pc' = "except" /\ exc' = "TankError"
                   \/ pc' = pc /\ exc' = exc
    /\ rpc' = NoCall
    /\ UNCHANGED <<cancellation_vars, tank_vars, lock_dir_locked, job, next_id, done,
                   publish_vars, tank_calls, finished_claimed>>
    /\ UNCHANGED aux_vars

\* job = self.tank_client.prepare_job(job, files)
execute_job_prepare ==
    /\ pc = "prepare_job"
    /\ \E outcome \in PrepareOutcomes :
        LET r == prepare_job(job, tank_worker, shooting_event, background_workers,
                             lock_dir_locked, outcome) IN
        /\ job' = r.job
        /\ tank_worker' = r.worker
        /\ shooting_event' = r.event
        /\ background_workers' = r.bg
        /\ IF r.exc = "none"
              THEN pc' = "serve_lt_job" /\ exc' = exc
              ELSE pc' = "except" /\ exc' = r.exc
    /\ done' = FALSE
    /\ rpc' = NoCall
    /\ tank_calls' = Push(tank_calls, "prepare_job")
    /\ UNCHANGED <<cancellation_vars, lock_dir_locked, next_id, publish_vars, finished_claimed>>
    /\ UNCHANGED aux_vars

\* the level of the raise_on_set() call at the top of serve_lt_job's loop:
\* the default of the cancellation_type parameter
serve_lt_job_level == GRACEFUL

\* serve_lt_job: `while not done`, then self.cancellation.raise_on_set()
serve_lt_job ==
    /\ pc = "serve_lt_job"
    /\ IF done
          THEN pc' = "finally" /\ exc' = exc
          ELSE IF raise_on_set(serve_lt_job_level)
              THEN pc' = "except" /\ exc' = "CancellationRequest"
              ELSE pc' = "serve_lt_signal" /\ exc' = exc
    /\ rpc' = NoCall
    /\ UNCHANGED <<cancellation_vars, tank_vars, lock_dir_locked, job, next_id, done,
                   publish_vars, tank_calls, finished_claimed>>
    /\ UNCHANGED aux_vars

\* serve_lt_job: the sustain_job scope is entered and serve_lt_signal runs
serve_lt_signal ==
    /\ pc = "serve_lt_signal"
    /\ IF observe_enter_raises
          THEN /\ pc' = "except"
               /\ exc' = "CancellationRequest"
               /\ rpc' = NoCall
               /\ UNCHANGED <<tank_vars, tank_calls>>
          ELSE \/ \* get_job_signal raises
                  \E e \in BackendErrors :
                    /\ rpc' = OtherCall("get_job_signal", job, e)
                    /\ IF sustain_job(e)
                          THEN pc' = "serve_lt_job" /\ exc' = exc
                          ELSE pc' = "except" /\ exc' = e
                    /\ UNCHANGED <<tank_vars, tank_calls>>
               \/ \* STOP: serve_stop_signal
                  /\ rpc' = OtherCall("get_job_signal", job, "STOP")
                  /\ \E w \in StopOutcomes(tank_worker) : tank_worker' = w
                  /\ tank_calls' = Push(tank_calls, "stop_job")
                  /\ pc' = "except"
                  /\ exc' = "JobStoppedError"
                  /\ UNCHANGED <<shooting_event, background_workers>>
               \/ \* RUN_IN with run_in <= sleep_time: serve_run_signal calls run_job
                  LET r == run_job(shooting_event) IN
                  /\ rpc' = OtherCall("get_job_signal", job, "RUN_IN_now")
                  /\ shooting_event' = r.event
                  /\ tank_calls' = Push(tank_calls, "run_job")
                  /\ IF r.exc = "none"
                        THEN pc' = "get_job_status" /\ exc' = exc
                        ELSE pc' = "except" /\ exc' = r.exc
                  /\ UNCHANGED <<tank_worker, background_workers>>
               \/ \* RUN_IN too far ahead, WAIT, SIGNAL_UNSPECIFIED: nothing to do
                  \E sig \in {"RUN_IN_later", "WAIT", "SIGNAL_UNSPECIFIED"} :
                    /\ rpc' = OtherCall("get_job_signal", job, sig)
                    /\ pc' = "get_job_status"
                    /\ exc' = exc
                    /\ UNCHANGED <<tank_vars, tank_calls>>
               \/ \* a signal the agent does not know: ValueError
                  /\ rpc' = OtherCall("get_job_signal", job, "UNKNOWN")
                  /\ pc' = "except"
                  /\ exc' = "ValueError"
                  /\ UNCHANGED <<tank_vars, tank_calls>>
    /\ UNCHANGED <<cancellation_vars, lock_dir_locked, job, next_id, done,
                   publish_vars, finished_claimed>>
    /\ UNCHANGED aux_vars

\* serve_lt_job: get_job_status, finish() when the status is finished, and
\* claim_job_status, still inside the sustain_job scope
serve_lt_status ==
    /\ pc = "get_job_status"
    /\ \E status \in JobStatuses(tank_worker, job.tank_job_id) : \E res \in RpcResults :
        /\ done' = finished(status)
        /\ IF finished(status)
              THEN /\ tank_worker' = cleanup.worker
                   /\ shooting_event' = cleanup.event
                   /\ background_workers' = cleanup.bg
                   /\ tank_calls' = Push(Push(tank_calls, "get_job_status"), "finish")
              ELSE /\ UNCHANGED tank_vars
                   /\ tank_calls' = Push(tank_calls, "get_job_status")
        /\ job' = update_status(job, status)
        /\ rpc' = ClaimCall(job, status.status, status.error_type, res)
        /\ finished_claimed' = FinishedClaimed(job, status)
        /\ IF res = "ok" \/ sustain_job(res)
              THEN pc' = "serve_lt_job" /\ exc' = exc
              ELSE pc' = "except" /\ exc' = res
    /\ UNCHANGED <<cancellation_vars, lock_dir_locked, next_id, publish_vars>>
    /\ UNCHANGED aux_vars

\* execute_job's except clauses; an exception without a clause goes on to
\* the finally block, and so does one raised by the claim of a clause
execute_job_except ==
    /\ pc = "except"
    /\ IF exc \in HandledByExecuteJob
          THEN \E res \in RpcResults :
                LET status == execute_job_handler_status(exc) IN
                /\ job' = update_status(job, status)
                /\ rpc' = ClaimCall(job, status.status, status.error_type, res)
                /\ finished_claimed' = FinishedClaimed(job, status)
                /\ exc' = IF res = "ok" THEN "none" ELSE res
          ELSE /\ rpc' = NoCall
               /\ UNCHANGED <<job, exc, finished_claimed>>
    /\ pc' = "finally"
    /\ UNCHANGED <<cancellation_vars, tank_vars, lock_dir_locked, next_id, done,
                   publish_vars, tank_calls>>
    /\ UNCHANGED aux_vars

\* a finally block that stops the job and leaves the worker in place
execute_job_finally_without_finish ==
    /\ pc = "finally"
    /\ pc' = IF exc = "none" THEN "publish_artifacts" ELSE "sustain_service"
    /\ \E w \in StopOutcomes(tank_worker) : tank_worker' = w
    /\ tank_calls' = Push(tank_calls, "stop_job")
    /\ rpc' = NoCall
    /\ UNCHANGED <<cancellation_vars, shooting_event, background_workers, lock_dir_locked,
                   job, next_id, exc, done, publish_vars, finished_claimed>>
    /\ UNCHANGED aux_vars

\* execute_job's finally block, after which execute_job returns the job or
\* lets the exception in flight out
execute_job_finally ==
    /\ pc = "finally"
    /\ pc' = IF exc = "none" THEN "publish_artifacts" ELSE "sustain_service"
    /\ tank_worker' = cleanup.worker
    /\ shooting_event' = cleanup.event
    /\ background_workers' = cleanup.bg
    /\ tank_calls' = Push(Push(tank_calls, "stop_job"), "finish")
    /\ rpc' = NoCall
    /\ UNCHANGED <<cancellation_vars, lock_dir_locked, job, next_id, exc, done,
                   publish_vars, finished_claimed>>
    /\ UNCHANGED aux_vars

(***************************************************************************)
(* UltaService.publish_artifacts.                                          *)
(***************************************************************************)
Uploaders == 1..NumUploaders

\* what uploader.service.publish_artifacts(job) can do: return, raise
\* CancellationRequest (the uploaders call raise_on_set(FORCED)), or raise
\* another exception
PublishOutcomes ==
    {"ok", "RuntimeError"} \cup (IF is_set(FORCED) THEN {"CancellationRequest"} ELSE {})

\* an except clause for CancellationRequest that re-raises
publish_handles_errors_only(e) == e # "CancellationRequest"

\* TRUE when an except clause of publish_artifacts catches e: one clause
\* catches CancellationRequest, the other every Exception
publish_handles(e) == e = "CancellationRequest" \/ e \in Exceptions

\* publish_artifacts: the override_status scope is entered; upl_applicable is
\* the set of uploaders whose can_publish(job) is true for this job
publish_artifacts ==
    /\ pc = "publish_artifacts"
    /\ pc' = "uploader"
    /\ override_status' = "UPLOADING_ARTIFACTS"
    /\ upl_idx' = 1
    /\ upl_applicable' \in SUBSET Uploaders
    /\ upl_invoked' = {}
    /\ upl_failed' = {}
    /\ upl_reported' = {}
    /\ rpc' = NoCall
    /\ UNCHANGED <<cancellation_vars, tank_vars, lock_dir_locked, job, next_id, exc, done,
                   tank_calls, finished_claimed>>
    /\ UNCHANGED aux_vars

\* publish_artifacts: one turn of the loop over the uploaders, with
\* claim_post_job_error (which logs and swallows an error of its claim)
publish_artifacts_uploader ==
    /\ pc = "uploader"
    /\ upl_idx \in Uploaders
    /\ \/ \* can_publish(job) is false: continue
          /\ upl_idx \notin upl_applicable
          /\ upl_idx' = upl_idx + 1
          /\ rpc' = NoCall
          /\ UNCHANGED <<pc, exc, upl_invoked, upl_failed, upl_reported, override_status>>
       \/ \E out \in PublishOutcomes :
          /\ upl_idx \in upl_applicable
          /\ upl_invoked' = upl_invoked \cup {upl_idx}
          /\ IF out = "ok"
                THEN /\ upl_idx' = upl_idx + 1
                     /\ rpc' = NoCall
                     /\ UNCHANGED <<pc, exc, upl_failed, upl_reported, override_status>>
                ELSE /\ upl_failed' = upl_failed \cup {upl_idx}
                     /\ IF publish_handles(out)
                           THEN \E res \in RpcResults :
                                /\ rpc' = ClaimCall(job, "JOB_STATUS_UNSPECIFIED",
                                                    "ARTIFACT_UPLOADING_FAILED", res)
                                /\ upl_reported' = upl_reported \cup {upl_idx}
                                /\ upl_idx' = upl_idx + 1
                                /\ UNCHANGED <<pc, exc, override_status>>
                           ELSE /\ rpc' = NoCall
                                /\ exc' = out
                                /\ pc' = "sustain_service"
                                /\ override_status' = "None"
                                /\ UNCHANGED <<upl_idx, upl_reported>>
    /\ UNCHANGED <<cancellation_vars, tank_vars, lock_dir_locked, job, next_id, done,
                   upl_applicable, tank_calls, finished_claimed>>
    /\ UNCHANGED aux_vars

\* publish_artifacts: the loop is over, the override_status scope is left and
\* publish_artifacts returns to serve, which sleeps
publish_artifacts_return ==
    /\ pc = "uploader"
    /\ upl_idx = NumUploaders + 1
    /\ pc' = "serve"
    /\ override_status' = "None"
    /\ upl_idx' = 1
    /\ upl_applicable' = {}
    /\ upl_invoked' = {}
    /\ upl_failed' = {}
    /\ upl_reported' = {}
    /\ rpc' = NoCall
    /\ UNCHANGED <<cancellation_vars, tank_vars, lock_dir_locked, job, next_id, exc, done,
                   tank_calls, finished_claimed>>
    /\ UNCHANGED aux_vars

(***************************************************************************)
(* The handler of SIGINT and SIGTERM.                                      *)
(***************************************************************************)
\* how many termination signals the process receives
MaxSignals == 3

\* terminate(signo): the handler set up by setup_cancellation, each signal
\* handled after the handler of the one before has returned.  It logs only
\* when cancellation is FORCED; otherwise it enters notify.
terminate ==
    /\ signals < MaxSignals
    /\ cancel_lock = "free"
    /\ signals' = signals + 1
    /\ IF terminate_level = NOT_SET
          THEN UNCHANGED cancellation_vars
          ELSE notify_enter("signal", terminate_level)
    /\ UNCHANGED <<agent_vars, state_vars, observer_vars, reporter_vars, more_vars>>

(***************************************************************************)
(* State and GenericObserver.observe, under a thread that opens scopes     *)
(* inside one another and raises inside them.                              *)
(***************************************************************************)
\* how deep the thread nests its scopes
MaxDepth == 2

\* the stage names the thread uses
Stages == {"stage", "other_stage"}

\* what the body of a scope raises
RaisedExceptions == {"ValueError", "KeyError", "CancellationRequest"}

\* the values of observe's suppress, error and critical arguments, after
\* _arg_to_type_tuple
ArgClassSets == {{}, {"ValueError"}, {"Exception"}}

\* isinstance(e, classes) for the exceptions above, all of them subclasses
\* of Exception
matches(e, classes) == ({e, "Exception"} \cap classes) # {}

\* StateError(stage, message) for the message observe builds from stage and e
StateError(stage, e) == [stage |-> stage, message |-> e]

\* State.error: the error is stored under its hash, stage + message
error(errors, stage, e) ==
    {x \in errors : x.stage \o x.message # stage \o e} \cup {StateError(stage, e)}

\* State.cleanup that removes nothing
cleanup_nothing(errors, stage) == errors

\* State.cleanup: the errors of the stage are removed
cleanup_stage(errors, stage) == {e \in errors : e.stage # stage}

\* the frame of an open scope; stored is TRUE once an error of the frame's
\* stage has been stored while the scope is open
Frame(stage, suppress, err, critical) ==
    [stage |-> stage, suppress |-> suppress, error |-> err, critical |-> critical,
     stored |-> FALSE]

Frames == {Frame(st, su, er, cr) : st \in Stages, su \in ArgClassSets,
                                   er \in ArgClassSets, cr \in ArgClassSets}

\* observe's except clauses with the clause of CancellationRequest left out
observe_outcome_without_cancellation_clause(f, e) ==
    [store |-> matches(e, f.error),
     notify |-> matches(e, f.critical),
     swallow |-> matches(e, f.suppress)]

\* observe's except clauses for exception e in the scope of frame f: whether
\* State.error is called, whether Cancellation.notify is called, and whether
\* the exception is swallowed
observe_outcome(f, e) ==
    IF e = "CancellationRequest"
        THEN [store |-> FALSE, notify |-> FALSE, swallow |-> FALSE]
        ELSE [store |-> matches(e, f.error),
              notify |-> matches(e, f.critical),
              swallow |-> matches(e, f.suppress)]

\* the open frames after an error of stage has been stored
MarkStored(frames, stage) ==
    [i \in DOMAIN frames |->
        IF frames[i].stage = stage THEN [frames[i] EXCEPT !.stored = TRUE] ELSE frames[i]]

ObsLast(kind, stage, e) == [kind |-> kind, stage |-> stage, exc |-> e]

\* `with observe(stage=..., suppress=..., error=..., critical=...)` is
\* entered: cleanup, raise_on_set(FORCED), enter_state
observe_enter ==
    /\ obs_exc = "none"
    /\ Len(obs_frames) < MaxDepth
    /\ \E f \in Frames :
        /\ active_errors' = cleanup_stage(active_errors, f.stage)
        /\ IF observe_enter_raises
              THEN /\ obs_exc' = "CancellationRequest"
                   /\ obs_last' = ObsLast("refused", f.stage, "CancellationRequest")
                   /\ UNCHANGED <<obs_frames, state_stack>>
              ELSE /\ obs_frames' = Append(obs_frames, f)
                   /\ state_stack' = Append(state_stack, f.stage)
                   /\ obs_last' = ObsLast("entered", f.stage, "none")
                   /\ obs_exc' = obs_exc
    /\ UNCHANGED <<cancellation_vars, agent_vars, signals, reporter_vars, more_vars>>

\* the innermost open scope is left by exception e: enter_state pops the
\* stage, then the except clauses of observe run
observe_leave(e) ==
    LET f == obs_frames[Len(obs_frames)]
        rest == SubSeq(obs_frames, 1, Len(obs_frames) - 1)
        out == observe_outcome(f, e) IN
    /\ state_stack' = SubSeq(state_stack, 1, Len(state_stack) - 1)
    /\ active_errors' = IF out.store THEN error(active_errors, f.stage, e) ELSE active_errors
    /\ obs_frames' = IF out.store THEN MarkStored(rest, f.stage) ELSE rest
    /\ IF out.notify
          THEN /\ cancel_lock = "free"
               /\ current_type' = notify_update(current_type, GRACEFUL)
               /\ notify_level' = GRACEFUL
               /\ UNCHANGED <<cancel_lock, forced_notified>>
          ELSE UNCHANGED cancellation_vars
    /\ obs_exc' = IF out.swallow THEN "none" ELSE e
    /\ obs_last' = ObsLast(IF out.swallow THEN "suppressed" ELSE "propagated", f.stage, e)

\* the body of the innermost open scope raises
observe_body_raises ==
    /\ obs_exc = "none"
    /\ obs_frames # << >>
    /\ \E e \in RaisedExceptions : observe_leave(e)
    /\ UNCHANGED <<agent_vars, signals, reporter_vars, more_vars>>

\* the exception in flight reaches the next open scope
observe_except ==
    /\ obs_exc # "none"
    /\ obs_frames # << >>
    /\ observe_leave(obs_exc)
    /\ UNCHANGED <<agent_vars, signals, reporter_vars, more_vars>>

\* the body of the innermost open scope ends without an exception
observe_exit ==
    /\ obs_exc = "none"
    /\ obs_frames # << >>
    /\ obs_frames' = SubSeq(obs_frames, 1, Len(obs_frames) - 1)
    /\ state_stack' = SubSeq(state_stack, 1, Len(state_stack) - 1)
    /\ obs_last' = ObsLast("exited", obs_frames[Len(obs_frames)].stage, "none")
    /\ UNCHANGED <<active_errors, obs_exc>>
    /\ UNCHANGED <<cancellation_vars, agent_vars, signals, reporter_vars, more_vars>>

\* the exception in flight has left every scope and the thread catches it
observe_caller_catches ==
    /\ obs_exc # "none"
    /\ obs_frames = << >>
    /\ obs_exc' = "none"
    /\ UNCHANGED <<active_errors, state_stack, obs_frames, obs_last>>
    /\ UNCHANGED <<cancellation_vars, agent_vars, signals, reporter_vars, more_vars>>

(***************************************************************************)
(* Reporter (common/reporter.py).                                          *)
(***************************************************************************)
\* the handlers of the log reporter: cloud logging and the loadtesting backend
NumHandlers == 2
Handlers == 1..NumHandlers

\* the queues a Reporter drains: the one it is built with and the one added later
NumSources == 2
SourceQueues == 1..NumSources

\* the items the producers put into the queues
MaxItems == 2
\* the last value of the clock
MaxTime == 2
\* Reporter._retention_period, in ticks of the clock
RetentionPeriod == 1
\* Reporter._max_unsent_size
MaxUnsentSize == 1

\* the defaults of _AttemptManager.__init__
multiplier == 2
max_delay == 600
base_delay == 2

Min(a, b) == IF a <= b THEN a ELSE b

\* handler.get_max_batch_size(): None (0 here) for the first handler
get_max_batch_size(h) == IF h = 1 THEN 0 ELSE 2

\* x or 1
or_1(x) == IF x = 0 THEN 1 ELSE x

\* _UnsentMessage(data): the timestamp is the time of the drain
UnsentMessage(data) == [ts |-> clock, data |-> data]

RECURSIVE collect_from(_)
collect_from(q) ==
    IF q > NumSources
       THEN << >>
       ELSE [k \in 1..Len(sources[q]) |-> UnsentMessage(sources[q][k])] \o collect_from(q + 1)

\* Reporter._collect_new_messages: every queue is emptied, in the order of the sources
collect_new_messages == collect_from(1)

\* a deque without maxlen
put_unsent_unbounded(deq, unsent_chunk) == deq \o unsent_chunk

\* deque(maxlen=max_unsent_size).extend(chunk): what does not fit falls off the left
put_unsent(deq, unsent_chunk) ==
    LET all == deq \o unsent_chunk
    IN  IF Len(all) <= MaxUnsentSize
           THEN all
           ELSE SubSeq(all, Len(all) - MaxUnsentSize + 1, Len(all))

\* a Reporter that hands out the whole deque, whatever the age of the items
release_all_unsent(h) == unsent[h]

\* Reporter._get_and_release_unsent: the items of the deque that are not too old
get_and_release_unsent(h) ==
    SelectSeq(unsent[h], LAMBDA m : m.ts >= clock - RetentionPeriod)

\* a sort that puts every message in front of the ones before it
insert_first(s, m) == <<m>> \o s

RECURSIVE insert_by_ts(_, _)
insert_by_ts(s, m) ==
    IF s = << >>
       THEN <<m>>
       ELSE IF Head(s).ts <= m.ts
               THEN <<Head(s)>> \o insert_by_ts(Tail(s), m)
               ELSE <<m>> \o s

RECURSIVE sorted_by_ts(_)
\* sorted(messages, key=lambda r: r.ts): a stable sort
sorted_by_ts(s) ==
    IF s = << >>
       THEN << >>
       ELSE insert_by_ts(sorted_by_ts(SubSeq(s, 1, Len(s) - 1)), s[Len(s)])

\* a _chop that cuts a list into pieces of one item
chop_by_one(data, size) == [i \in 1..Len(data) |-> <<data[i]>>]

\* _chop(data, size)
chop(data, size) ==
    LET sz == IF size <= 0 THEN Len(data) + 1 ELSE size
        n == Len(data) \div sz
        rem == Len(data) % sz
        chunks == [i \in 1..n |-> SubSeq(data, (i - 1) * sz + 1, i * sz)]
    IN  IF rem # 0
           THEN Append(chunks, SubSeq(data, Len(data) - rem + 1, Len(data)))
           ELSE chunks

\* the chunks report() offers to a handler it attempts
to_send(h, records) ==
    chop(sorted_by_ts(get_and_release_unsent(h) \o records), or_1(get_max_batch_size(h)))

\* _AttemptManager() and _DummyAttemptManager()
AttemptManager == [kind |-> "_AttemptManager", next_attempt |-> 0, current_delay |-> base_delay]
DummyAttemptManager == [kind |-> "_DummyAttemptManager", next_attempt |-> 0, current_delay |-> base_delay]

\* an attempt manager that never holds a handler back
can_attempt_always(mgr) == TRUE

\* attempt_manager.can_attempt()
can_attempt(mgr) ==
    mgr.kind = "_DummyAttemptManager" \/ mgr.next_attempt <= clock

\* attempt_manager.record(failure)
record(mgr, failure) ==
    IF mgr.kind = "_DummyAttemptManager"
       THEN mgr
       ELSE IF ~failure
               THEN [mgr EXCEPT !.next_attempt = 0, !.current_delay = base_delay]
               ELSE [mgr EXCEPT !.next_attempt = clock + Min(mgr.current_delay, max_delay),
                                !.current_delay = Min(mgr.current_delay * multiplier, max_delay)]

\* the failure report() records for a handler: len(errors) == len(to_send)
recorded_failure(errors, chunks) == errors = Len(chunks)

\* a report() that forgets the chunks handle() raised for
requeued_nothing(chunks, failing, k) == << >>

RECURSIVE requeued(_, _, _)
\* the deque after the first k chunks went through handle(): the failing ones are put back
requeued(chunks, failing, k) ==
    IF k = 0
       THEN << >>
       ELSE IF k \in failing
               THEN put_unsent(requeued(chunks, failing, k - 1), chunks[k])
               ELSE requeued(chunks, failing, k - 1)

RECURSIVE handled(_, _, _)
\* the data of the first k chunks that handle() accepted
handled(chunks, failing, k) ==
    IF k = 0
       THEN << >>
       ELSE IF k \in failing
               THEN handled(chunks, failing, k - 1)
               ELSE handled(chunks, failing, k - 1)
                       \o [j \in 1..Len(chunks[k]) |-> chunks[k][j].data]

Range(s) == {s[k] : k \in DOMAIN s}
DataOf(messages) == {messages[k].data : k \in DOMAIN messages}

RECURSIVE handed(_, _)
\* the data handle() was called with when the first k chunks went through the loop
handed(chunks, k) ==
    IF k = 0 THEN {} ELSE handed(chunks, k - 1) \cup DataOf(chunks[k])

\* what the latest report() did: the handlers it attempted, the data it called each
\* handler's handle() with, and the handlers whose handle() raised
LastReport(force, attempted, offered, failed) ==
    [force |-> force, attempted |-> attempted,
     offered |-> [h \in Handlers |-> handed(offered[h], Len(offered[h]))],
     failed |-> failed]

NoReport == [force |-> FALSE, attempted |-> {},
             offered |-> [h \in Handlers |-> {}], failed |-> {}]

\* the state Reporter.__init__ leaves
ReporterInit(use_exponential_backoff) ==
    /\ clock = 0
    /\ sources = [q \in SourceQueues |-> << >>]
    /\ next_item = 1
    /\ unsent = [h \in Handlers |-> << >>]
    /\ handler_managers = [h \in Handlers |->
           IF use_exponential_backoff THEN AttemptManager ELSE DummyAttemptManager]
    /\ delivered = [h \in Handlers |-> << >>]
    /\ lost = [h \in Handlers |-> {}]
    /\ last_report = NoReport
    /\ stop_set = FALSE
    /\ worker_pc = "waiting"
    /\ run_pc = "in_scope"

\* the handlers report(force) attempts, and the chunks it offers to each of them
attempted_handlers(force) == {h \in Handlers : force \/ can_attempt(handler_managers[h])}
offered_chunks(force, records) ==
    [h \in Handlers |-> IF h \in attempted_handlers(force) THEN to_send(h, records) ELSE << >>]

\* Reporter.report(force) when handle() raises for the chunks in failing
report_with(force, records, offered, failing) ==
    LET unsent_after == [h \in Handlers |->
            IF h \in attempted_handlers(force)
               THEN requeued(offered[h], failing[h], Len(offered[h]))
               ELSE put_unsent(unsent[h], records)]
        handled_now == [h \in Handlers |-> handled(offered[h], failing[h], Len(offered[h]))]
    IN  /\ sources' = [q \in SourceQueues |-> << >>]
        /\ unsent' = unsent_after
        /\ handler_managers' = [h \in Handlers |->
               IF h \in attempted_handlers(force)
                  THEN record(handler_managers[h],
                              recorded_failure(Cardinality(failing[h]), offered[h]))
                  ELSE handler_managers[h]]
        /\ delivered' = [h \in Handlers |-> delivered[h] \o handled_now[h]]
        /\ lost' = [h \in Handlers |->
               lost[h] \cup ((DataOf(unsent[h]) \cup DataOf(records))
                               \ (DataOf(unsent_after[h]) \cup Range(handled_now[h])))]
        /\ last_report' = LastReport(force, attempted_handlers(force), offered,
                                     {h \in Handlers : failing[h] # {}})
        /\ stop_set' = force
        /\ UNCHANGED <<clock, next_item>>
        /\ UNCHANGED <<cancellation_vars, agent_vars, signals, state_vars, observer_vars, more_vars>>

\* Reporter.report(force): handle() may raise for any of the chunks
report(force) ==
    /\ ~stop_set
    /\ LET records == collect_new_messages
           offered == offered_chunks(force, records)
       IN  \E f1 \in SUBSET (DOMAIN offered[1]) : \E f2 \in SUBSET (DOMAIN offered[2]) :
              report_with(force, records, offered, <<f1, f2>>)

\* an iteration of the worker thread Reporter.run starts
worker_report == report(FALSE) /\ UNCHANGED run_vars

\* the report(force=True) Reporter.run makes when its scope is left
run_finally == report(TRUE) /\ UNCHANGED run_vars

\* the queues the producers may put item i into: every item may go to the first queue,
\* every second item to any queue
queues_of(i) == {q \in SourceQueues : q = 1 \/ i % 2 = 0}

\* a producer puts the next item into one of the queues
source_put ==
    /\ ~stop_set
    /\ next_item <= MaxItems
    /\ \E q \in queues_of(next_item) :
          sources' = [sources EXCEPT ![q] = Append(@, [id |-> next_item, source |-> q])]
    /\ next_item' = next_item + 1
    /\ UNCHANGED <<clock, unsent, handler_managers, delivered, lost, last_report, stop_set,
                   run_vars>>
    /\ UNCHANGED <<cancellation_vars, agent_vars, signals, state_vars, observer_vars, more_vars>>

\* time passes
tick ==
    /\ ~stop_set
    /\ clock < MaxTime
    /\ clock' = clock + 1
    /\ UNCHANGED <<sources, next_item, unsent, handler_managers, delivered, lost, last_report,
                   stop_set, run_vars>>
    /\ UNCHANGED <<cancellation_vars, agent_vars, signals, state_vars, observer_vars, more_vars>>

(***************************************************************************)
(* Reporter.run and the worker thread of run_background_worker, step by    *)
(* step.                                                                   *)
(***************************************************************************)
\* a join that does not wait for the worker thread
thread_joined_at_once == TRUE

\* thread.join() returns: the worker thread has left its loop
thread_joined == worker_pc = "finished"

\* stop.is_set(): the scope of run_background_worker has been left
stop_is_set == run_pc # "in_scope"

\* the worker thread finds stop unset and starts an iteration
worker_iteration ==
    /\ worker_pc = "waiting"
    /\ ~stop_is_set
    /\ worker_pc' = "iteration"
    /\ UNCHANGED <<clock, sources, next_item, unsent, handler_managers, delivered, lost,
                   last_report, stop_set, run_pc>>
    /\ UNCHANGED <<cancellation_vars, agent_vars, signals, state_vars, observer_vars, more_vars>>

\* the iteration of the worker thread: report(), then stop.wait(interval)
worker_iteration_report ==
    /\ worker_pc = "iteration"
    /\ report(FALSE)
    /\ worker_pc' = "waiting"
    /\ UNCHANGED run_pc

\* the worker thread finds stop set and leaves its loop
worker_exit ==
    /\ worker_pc = "waiting"
    /\ stop_is_set
    /\ worker_pc' = "finished"
    /\ UNCHANGED <<clock, sources, next_item, unsent, handler_managers, delivered, lost,
                   last_report, stop_set, run_pc>>
    /\ UNCHANGED <<cancellation_vars, agent_vars, signals, state_vars, observer_vars, more_vars>>

\* the scope of Reporter.run is left: run_background_worker sets stop
run_exit_stop ==
    /\ run_pc = "in_scope"
    /\ run_pc' = "stopping"
    /\ UNCHANGED <<clock, sources, next_item, unsent, handler_managers, delivered, lost,
                   last_report, stop_set, worker_pc>>
    /\ UNCHANGED <<cancellation_vars, agent_vars, signals, state_vars, observer_vars, more_vars>>

\* run_background_worker joins the worker thread
run_exit_join ==
    /\ run_pc = "stopping"
    /\ thread_joined
    /\ run_pc' = "joined"
    /\ UNCHANGED <<clock, sources, next_item, unsent, handler_managers, delivered, lost,
                   last_report, stop_set, worker_pc>>
    /\ UNCHANGED <<cancellation_vars, agent_vars, signals, state_vars, observer_vars, more_vars>>

\* the finally clause of Reporter.run: report(force=True)
run_exit_report ==
    /\ run_pc = "joined"
    /\ report(TRUE)
    /\ run_pc' = "left"
    /\ UNCHANGED worker_pc

(***************************************************************************)
(* _chop on its own.                                                       *)
(***************************************************************************)
\* the longest list passed to _chop
MaxChopLen == 3
\* the largest size passed to _chop; the smallest is its negative
MaxChopSize == 4

ChopItems == {"a", "b"}
ChopLists == UNION {[1..n -> ChopItems] : n \in 0..MaxChopLen}
ChopSizes == (0 - MaxChopSize)..MaxChopSize

\* no call of _chop has been made
ChopInit ==
    /\ chop_data = << >>
    /\ chop_size = 1
    /\ chop_result = << >>
    /\ chop_pc = "call"

\* a caller calls _chop(data, size)
chop_call ==
    /\ chop_pc = "call"
    /\ chop_result' = chop(chop_data, chop_size)
    /\ chop_pc' = "returned"
    /\ UNCHANGED <<chop_data, chop_size>>
    /\ UNCHANGED <<cancellation_vars, agent_vars, signals, state_vars, observer_vars,
                   reporter_vars, rest_vars>>

(***************************************************************************)
(* StatusReporter.                                                         *)
(***************************************************************************)
TankStatus == {"STATUS_UNSPECIFIED", "READY_FOR_TEST", "PREPARING_TEST", "TESTING",
               "TANK_FAILED", "STOPPED", "UPLOADING_ARTIFACTS", "ERROR"}

IDLE_STATUSES == {"STATUS_UNSPECIFIED", "READY_FOR_TEST", "STOPPED"}

\* `not status` for the status argument: None, and STATUS_UNSPECIFIED = 0 of the
\* IntEnum
falsy(status) == status \in {"None", "STATUS_UNSPECIFIED"}

\* State.ok
ok(errors) == errors = {}

\* the texts a status message is made of
NoMessage == [from |-> "None", text |-> {}]

\* Cancellation.explain()
explain == [from |-> "Cancellation.explain", text |-> {}]

\* State.get_summary_message: the messages of the current errors
get_summary_message(errors) ==
    [from |-> "State.get_summary_message", text |-> {e.message : e \in errors}]

\* report_tank_status without the override of line 37
report_tank_status_unchanged(status, status_message, provided, errors) ==
    [status |-> IF falsy(status) THEN provided ELSE status, message |-> status_message]

\* report_tank_status: the status name and the message passed to
\* claim_tank_status
report_tank_status(status, status_message, provided, errors) ==
    LET resulting == IF falsy(status) THEN provided ELSE status
    IN  IF resulting \in IDLE_STATUSES /\ ~ok(errors)
        THEN [status |-> "ERROR", message |-> get_summary_message(errors)]
        ELSE [status |-> resulting, message |-> status_message]

\* the errors of google.api_core the worker's first except clause names
BackendRejections == {"FailedPrecondition", "NotFound", "Unauthorized", "Unauthenticated"}

\* how a claim_tank_status call ends: it returns, or it raises
ClaimOutcomes == {"ok"} \cup BackendRejections \cup {"Exception"}

\* an except clause that matches nothing
matches_no_rejection(outcome) == FALSE

\* except (FailedPrecondition, NotFound, Unauthorized, Unauthenticated)
is_backend_rejection(outcome) == outcome \in BackendRejections

\* a report_tank_status call by thread `by` and how its claim ended
StatusCall(by, status, status_message, provided, errors, outcome) ==
    [by |-> by, status |-> status, message |-> status_message,
     claimed |-> report_tank_status(status, status_message, provided, errors),
     outcome |-> outcome]

NoStatusCall == [by |-> "none", status |-> "None", message |-> NoMessage,
                 claimed |-> [status |-> "None", message |-> NoMessage],
                 outcome |-> "ok"]

StatusInit ==
    /\ provided_status = "READY_FOR_TEST"
    /\ sr_run_pc = "in_scope"
    /\ sr_worker_pc = "waiting"
    /\ sr_final_claims = 0
    /\ sr_last = NoStatusCall

\* the rest of the state a step of the status reporter leaves alone
status_frame ==
    UNCHANGED <<agent_vars, signals, state_stack, observer_vars, reporter_vars, chop_vars,
                other_vars>>

\* worker: `while not stop.is_set()` is true, report_tank_status() is called and
\* its claim returns or raises
status_worker_report ==
    /\ sr_worker_pc = "waiting"
    /\ sr_run_pc = "in_scope"
    /\ \E outcome \in ClaimOutcomes :
          /\ sr_last' = StatusCall("worker", "None", NoMessage, provided_status,
                                   active_errors, outcome)
          /\ sr_worker_pc' = IF is_backend_rejection(outcome) THEN "rejected" ELSE "waiting"
    /\ UNCHANGED <<provided_status, sr_run_pc, sr_final_claims, active_errors>>
    /\ UNCHANGED cancellation_vars
    /\ status_frame

\* worker: the first except clause calls cancellation.notify(..., FORCED)
status_worker_notify ==
    /\ sr_worker_pc = "rejected"
    /\ notify_enter("reporter", FORCED)
    /\ sr_worker_pc' = "notifying"
    /\ UNCHANGED <<provided_status, sr_run_pc, sr_final_claims, sr_last,
                   active_errors>>
    /\ status_frame

\* worker: notify returns, then stop.wait(report_interval)
status_worker_notified ==
    /\ sr_worker_pc = "notifying"
    /\ notify_exit("reporter")
    /\ sr_worker_pc' = "waiting"
    /\ UNCHANGED <<provided_status, sr_run_pc, sr_final_claims, sr_last,
                   active_errors>>
    /\ status_frame

\* worker: `while not stop.is_set()` is false, the thread ends
status_worker_exit ==
    /\ sr_worker_pc = "waiting"
    /\ sr_run_pc # "in_scope"
    /\ sr_worker_pc' = "finished"
    /\ UNCHANGED <<provided_status, sr_run_pc, sr_final_claims, sr_last,
                   active_errors>>
    /\ UNCHANGED cancellation_vars
    /\ status_frame

\* a join that does not wait for the thread
status_thread_joined_at_once == TRUE

\* _stop: self._thread.join() has returned
status_thread_joined == sr_worker_pc = "finished"

\* run: the scope is left, _stop sets the stop event
status_run_exit_stop ==
    /\ sr_run_pc = "in_scope"
    /\ sr_run_pc' = "stopping"
    /\ UNCHANGED <<provided_status, sr_worker_pc, sr_final_claims, sr_last,
                   active_errors>>
    /\ UNCHANGED cancellation_vars
    /\ status_frame

\* run: _stop joins the worker thread
status_run_exit_join ==
    /\ sr_run_pc = "stopping"
    /\ status_thread_joined
    /\ sr_run_pc' = "joined"
    /\ UNCHANGED <<provided_status, sr_worker_pc, sr_final_claims, sr_last,
                   active_errors>>
    /\ UNCHANGED cancellation_vars
    /\ status_frame

\* run: report_tank_status(TankStatus.STOPPED, cancellation.explain()) inside
\* try/except BaseException
status_run_exit_report ==
    /\ sr_run_pc = "joined"
    /\ \E outcome \in ClaimOutcomes :
          sr_last' = StatusCall("run", "STOPPED", explain, provided_status,
                                active_errors, outcome)
    /\ sr_final_claims' = sr_final_claims + 1
    /\ sr_run_pc' = "left"
    /\ UNCHANGED <<provided_status, sr_worker_pc, active_errors>>
    /\ UNCHANGED cancellation_vars
    /\ status_frame

\* what UltaService.get_tank_status returns: the status of the tank client or
\* the override of publish_artifacts
ServiceStatuses == {"READY_FOR_TEST", "PREPARING_TEST", "TESTING", "UPLOADING_ARTIFACTS"}

\* the tank and the control loop change what get_tank_status returns
status_provided_changes ==
    /\ \E status \in ServiceStatuses :
          /\ status # provided_status
          /\ provided_status' = status
    /\ UNCHANGED <<sr_run_pc, sr_worker_pc, sr_final_claims, sr_last,
                   active_errors>>
    /\ UNCHANGED cancellation_vars
    /\ status_frame

\* another thread stores an error in State or cleans a stage up
status_state_changes ==
    /\ \E stage \in Stages :
          \/ active_errors' = error(active_errors, stage, "ValueError")
          \/ active_errors' = cleanup_stage(active_errors, stage)
    /\ active_errors' # active_errors
    /\ UNCHANGED status_vars
    /\ UNCHANGED cancellation_vars
    /\ status_frame

\* the signal handler or the admin API calls Cancellation.notify
status_other_notify_enter ==
    /\ \E t \in Notifiers \ {"reporter"} : \E level \in NotifyLevels(t) : notify_enter(t, level)
    /\ UNCHANGED <<status_vars, active_errors>>
    /\ status_frame

status_other_notify_exit ==
    /\ \E t \in Notifiers \ {"reporter"} : notify_exit(t)
    /\ UNCHANGED <<status_vars, active_errors>>
    /\ status_frame

\* a caller calls report_tank_status(status, status_message) directly
report_tank_status_call ==
    /\ \E status \in TankStatus \cup {"None"} : \E status_message \in {NoMessage, explain} :
       \E outcome \in ClaimOutcomes :
          sr_last' = StatusCall("caller", status, status_message, provided_status,
                                active_errors, outcome)
    /\ UNCHANGED <<provided_status, sr_run_pc, sr_worker_pc, sr_final_claims, active_errors>>
    /\ UNCHANGED cancellation_vars
    /\ status_frame

(***************************************************************************)
(* FileSystemObserver's free-space check, the mutation lock and the main   *)
(* path that runs a job.                                                   *)
(***************************************************************************)
\* the largest free space get_batch reports and a cleanup returns, in the unit
\* of RequirementSize
MaxAvailable == 3

\* FileSystemObserver._requirements, in the order healthcheck goes through them
Requirements == <<"tmp_dir", "tests_dir", "lock_dir">>

\* Requirement.size: 2G for tmp_dir and tests_dir, 1M for lock_dir, in a unit
\* in which they are 2 and 1
RequirementSize(r) == IF Requirements[r] = "lock_dir" THEN 1 ELSE 2

\* the stage of the observe scope around _check_free_space
FreeSpaceStage(r) ==
    CASE Requirements[r] = "tmp_dir" -> "check free space tmp_dir"
      [] Requirements[r] = "tests_dir" -> "check free space tests_dir"
      [] Requirements[r] = "lock_dir" -> "check free space lock_dir"

\* fs_usage.get(req.path): None, or an FSUsage with its available field
Usages == {[found |-> FALSE, available |-> 0]}
             \cup {[found |-> TRUE, available |-> a] : a \in (0 - 1)..MaxAvailable}

\* what Requirement.cleanup(size) can return: clean_temporary_dir and
\* clean_tests_dirs return the free space they find or -1, the lambda of
\* lock_dir returns -1
CleanupResults(r) ==
    IF Requirements[r] = "lock_dir" THEN {0 - 1} ELSE (0 - 1)..MaxAvailable

\* _check_free_space: the guards before the lock is tried
space_is_low(size, usage) ==
    /\ size # 0 - 1
    /\ usage.found
    /\ usage.available >= 0
    /\ usage.available < size

\* a check that cleans up whether or not it holds the lock
calls_cleanup_always(mutating_avalable) == TRUE

\* `if mutating_avalable:` the cleanup function is called
calls_cleanup(mutating_avalable) == mutating_avalable

\* `if available < 0 or available < requirement.size`
not_enough(available, size) == available < 0 \/ available < size

\* the mutation lock tried with blocking=False: what the context manager yields
try_mutation_lock == mutation_lock = "free"

\* how a check of one requirement went
FreeSpaceCheck(r, usage, acquired, cleanup_called, available, raised) ==
    [req |-> r, usage |-> usage, acquired |-> acquired, cleanup_called |-> cleanup_called,
     available |-> available, raised |-> raised]

NoFreeSpaceCheck ==
    FreeSpaceCheck(0, [found |-> FALSE, available |-> 0], FALSE, FALSE, 0, FALSE)

next_requirement(r) == IF r = Len(Requirements) THEN 1 ELSE r + 1

FsInit ==
    /\ mutation_lock = "free"
    /\ exec_pc = "idle"
    /\ hc_pc = "idle"
    /\ hc_req = 1
    /\ hc_held = FALSE
    /\ hc_last = NoFreeSpaceCheck

\* the rest of the state a step of this part leaves alone
fs_frame ==
    UNCHANGED <<cancellation_vars, agent_vars, signals, state_stack, observer_vars,
                reporter_vars, chop_vars, status_vars, cleanup_vars, threads_vars, late_vars>>

\* the main path takes the mutation lock exclusively and starts the job
execute_job_acquire ==
    /\ exec_pc = "idle"
    /\ mutation_lock = "free"
    /\ mutation_lock' = "job"
    /\ exec_pc' = "executing"
    /\ UNCHANGED <<hc_pc, hc_req, hc_held, hc_last, active_errors>>
    /\ fs_frame

\* the job is over, the main path releases the mutation lock
execute_job_release ==
    /\ exec_pc = "executing"
    /\ mutation_lock' = "free"
    /\ exec_pc' = "idle"
    /\ UNCHANGED <<hc_pc, hc_req, hc_held, hc_last, active_errors>>
    /\ fs_frame

\* healthcheck: the observe scope of the requirement is entered and
\* _check_free_space runs up to the call of the cleanup function
check_free_space ==
    /\ hc_pc = "idle"
    /\ \E usage \in Usages :
          LET size == RequirementSize(hc_req)
              stage == FreeSpaceStage(hc_req)
              entered == cleanup_stage(active_errors, stage)
              acquired == try_mutation_lock
          IN  IF ~space_is_low(size, usage)
              THEN /\ hc_last' = FreeSpaceCheck(hc_req, usage, FALSE, FALSE, usage.available, FALSE)
                   /\ active_errors' = entered
                   /\ hc_req' = next_requirement(hc_req)
                   /\ UNCHANGED <<mutation_lock, hc_pc, hc_held>>
              ELSE IF calls_cleanup(acquired)
              THEN /\ hc_last' = FreeSpaceCheck(hc_req, usage, acquired, TRUE, usage.available, FALSE)
                   /\ mutation_lock' = IF acquired THEN "healthcheck" ELSE mutation_lock
                   /\ hc_held' = acquired
                   /\ hc_pc' = "cleanup"
                   /\ active_errors' = entered
                   /\ UNCHANGED hc_req
              ELSE /\ hc_last' = FreeSpaceCheck(hc_req, usage, acquired, FALSE, 0 - 1, TRUE)
                   /\ mutation_lock' = IF acquired THEN "free" ELSE mutation_lock
                   /\ active_errors' = error(entered, stage, "NotEnoughFreeSpace")
                   /\ hc_req' = next_requirement(hc_req)
                   /\ UNCHANGED <<hc_pc, hc_held>>
    /\ UNCHANGED exec_pc
    /\ fs_frame

\* healthcheck: the cleanup function returns, the lock is released and the
\* free space it reports is compared with the requirement
check_free_space_cleaned ==
    /\ hc_pc = "cleanup"
    /\ \E available \in CleanupResults(hc_req) :
          LET raised == not_enough(available, RequirementSize(hc_req))
          IN  /\ hc_last' = [hc_last EXCEPT !.available = available, !.raised = raised]
              /\ active_errors' = IF raised
                                  THEN error(active_errors, FreeSpaceStage(hc_req),
                                             "NotEnoughFreeSpace")
                                  ELSE active_errors
    /\ mutation_lock' = IF hc_held THEN "free" ELSE mutation_lock
    /\ hc_held' = FALSE
    /\ hc_pc' = "idle"
    /\ hc_req' = next_requirement(hc_req)
    /\ UNCHANGED exec_pc
    /\ fs_frame

(***************************************************************************)
(* FilesystemCleanup: both classes of that name, the one of                *)
(* common/file_system.py ("common") and the one of                         *)
(* service/filesystem_cleanup.py ("service").                              *)
(***************************************************************************)
\* the latest ctime of a file; ctimes up to TimeThreshold are older than the ttl
MaxCtime == 1

\* time.time() - ttl on the scale of the ctimes
TimeThreshold == 0

\* a path that does not exist
Absent == 0 - 1

\* the directories cleaned: fs.tmp_dir, fs.tests_dir, tests_dir / 'stpd-cache'
\* and the directory of the resource manager
CleanedDirs == {"tmp_dir", "tests_dir", "tests_dir/stpd-cache", "netort_dir"}

\* what is found below them
Paths ==
    {"tmp_dir/test_data_id", "tmp_dir/id", "tmp_dir/old_id", "tmp_dir/file", "tmp_dir/link",
     "tests_dir/stpd-cache", "tests_dir/lunapark", "tests_dir/tank_id",
     "tests_dir/old_tank_id", "tests_dir/stpd-cache/file",
     "netort_dir/downloaded_resource"}

\* Path.parent
Parent(p) ==
    CASE p \in {"tmp_dir/test_data_id", "tmp_dir/id", "tmp_dir/old_id", "tmp_dir/file",
                "tmp_dir/link"} -> "tmp_dir"
      [] p \in {"tests_dir/stpd-cache", "tests_dir/lunapark", "tests_dir/tank_id",
                "tests_dir/old_tank_id"} -> "tests_dir"
      [] p = "tests_dir/stpd-cache/file" -> "tests_dir/stpd-cache"
      [] p = "netort_dir/downloaded_resource" -> "netort_dir"
      [] OTHER -> "/"

\* Path.name
Name(p) == IF p = "tests_dir/stpd-cache" THEN "stpd-cache" ELSE p

\* a regular file, a directory, or a symbolic link to a directory
Kind(p) ==
    CASE p \in {"tmp_dir/file", "tests_dir/stpd-cache/file",
                "netort_dir/downloaded_resource"} -> "file"
      [] p = "tmp_dir/link" -> "link"
      [] OTHER -> "dir"

\* Path.is_dir and Path.is_file follow symbolic links
is_dir(p) == Kind(p) \in {"dir", "link"}
is_file(p) == Kind(p) = "file"

\* Path.resolve: the link points to the parent of tmp_dir and tests_dir
resolve(p) == IF p = "tmp_dir/link" THEN "work_dir" ELSE p

\* the paths that go when shutil.rmtree(p) or p.unlink() is called
Removed(p) == {p} \cup {q \in Paths : Parent(q) = p}

\* the jobs a FilesystemCleanup is built for: none (the healthcheck), a job
\* whose artifact_dir_path is not set yet (prepare_job) and one with both
CleanupJobs ==
    {[given |-> FALSE, test_data_dir |-> FALSE, artifact_dir_path |-> FALSE],
     [given |-> TRUE, test_data_dir |-> TRUE, artifact_dir_path |-> FALSE],
     [given |-> TRUE, test_data_dir |-> TRUE, artifact_dir_path |-> TRUE]}

\* __init__: self._forbiden_dirs for the files found
forbiden_dirs(files, j) ==
    LET named == {"tests_dir/stpd-cache", "tests_dir", "tmp_dir", "tests_dir/lunapark"}
                   \cup (IF j.given /\ j.test_data_dir
                         THEN {"tmp_dir/test_data_id", "tmp_dir/id"} ELSE {})
                   \cup (IF j.given /\ j.artifact_dir_path THEN {"tests_dir/tank_id"} ELSE {})
    IN  {resolve(d) : d \in {d \in named : d \in CleanedDirs \/ files[d] # Absent}}

\* a check that forbids nothing
is_forbiden_never(variant, p, forbidden) == FALSE

\* _is_forbiden of the common class, _is_forbiden_dir of the service class
is_forbiden(variant, p, forbidden) ==
    \/ resolve(p) \in forbidden
    \/ variant = "common" /\ Name(p) = "stpd-cache"

\* the four steps of cleanup(), in its order
CleanupSteps == <<"temporary", "stpd cache", "netort cache", "tests folder">>

\* the directory a step cleans
StepDir(step) ==
    CASE step = "temporary" -> "tmp_dir"
      [] step = "stpd cache" -> "tests_dir/stpd-cache"
      [] step = "netort cache" -> "netort_dir"
      [] step = "tests folder" -> "tests_dir"

\* whether the step uses a ttl
StepHasTtl(step) == step \in {"stpd cache", "netort cache"}

\* _is_good_dir, and the guards at the head of the steps of the service class;
\* a FilesystemCleanup without a job has no resource manager
step_runs(step, files, j) ==
    /\ StepDir(step) \in CleanedDirs \/ files[StepDir(step)] # Absent
    /\ step = "netort cache" => j.given

\* collect_objects of the step: the paths the loop may delete
collect_objects(variant, step, files, forbidden) ==
    LET children == {p \in Paths : files[p] # Absent /\ Parent(p) = StepDir(step)}
    IN  CASE step = "temporary" ->
               {p \in children : ~is_forbiden(variant, p, forbidden)}
          [] step = "stpd cache" ->
               {p \in children : is_file(p) /\ ~is_forbiden(variant, p, forbidden)}
          [] step = "netort cache" ->
               {p \in children : is_file(p)
                                 /\ (variant = "service" \/ ~is_forbiden(variant, p, forbidden))}
          [] step = "tests folder" ->
               {p \in children : /\ is_dir(p)
                                 /\ ~is_forbiden(variant, p, forbidden)
                                 /\ (variant = "service" => Name(p) # "stpd-cache")}

\* the loop's break for the next object f, given whether enough space is free
loop_breaks(variant, step, ctime, enough) ==
    IF variant = "service" /\ step = "temporary" THEN FALSE
    ELSE enough /\ (~StepHasTtl(step) \/ TimeThreshold < ctime)

CleanupInit ==
    /\ cl_variant = "common"
    /\ cl_job = [given |-> FALSE, test_data_dir |-> FALSE, artifact_dir_path |-> FALSE]
    /\ cl_files = [p \in Paths |-> IF p = "tmp_dir/link" THEN Absent ELSE 0]
    /\ cl_forbiden = forbiden_dirs(cl_files, cl_job)
    /\ cl_step = 1
    /\ cl_loop = FALSE
    /\ cl_objects = {}
    /\ cl_deleted = {}

\* the rest of the state a step of the cleanup leaves alone
cleanup_frame ==
    UNCHANGED <<cancellation_vars, agent_vars, signals, state_vars, observer_vars,
                reporter_vars, chop_vars, status_vars, fs_vars, threads_vars, late_vars>>

\* the step ends: its loop is over, it broke out of it, or an exception was
\* caught and logged
step_ends ==
    /\ cl_step' = cl_step + 1
    /\ cl_loop' = FALSE
    /\ cl_objects' = {}

\* a step of cleanup() starts: the guards, then the objects are collected and
\* sorted by ctime
do_clean_collect ==
    /\ cl_step <= Len(CleanupSteps)
    /\ ~cl_loop
    /\ IF step_runs(CleanupSteps[cl_step], cl_files, cl_job)
       THEN /\ cl_objects' = collect_objects(cl_variant, CleanupSteps[cl_step], cl_files,
                                             cl_forbiden)
            /\ cl_loop' = TRUE
            /\ UNCHANGED cl_step
       ELSE step_ends
    /\ UNCHANGED <<cl_variant, cl_job, cl_files, cl_forbiden, cl_deleted>>
    /\ cleanup_frame

\* the loop takes the oldest object left: it breaks, or deletes the object, or
\* the deletion raises
do_clean_next ==
    /\ cl_loop
    /\ cl_objects # {}
    /\ \E f \in cl_objects : \E enough \in BOOLEAN : \E raises \in BOOLEAN :
          /\ \A g \in cl_objects : cl_files[f] <= cl_files[g]
          /\ IF loop_breaks(cl_variant, CleanupSteps[cl_step], cl_files[f], enough)
             THEN /\ step_ends
                  /\ UNCHANGED <<cl_files, cl_deleted>>
             ELSE IF raises \/ Kind(f) = "link"
             THEN /\ step_ends
                  /\ UNCHANGED <<cl_files, cl_deleted>>
             ELSE /\ cl_files' = [p \in Paths |-> IF p \in Removed(f) THEN Absent
                                                  ELSE cl_files[p]]
                  /\ cl_deleted' = cl_deleted \cup Removed(f)
                  /\ cl_objects' = cl_objects \ {f}
                  /\ UNCHANGED <<cl_step, cl_loop>>
    /\ UNCHANGED <<cl_variant, cl_job, cl_forbiden>>
    /\ cleanup_frame

\* the loop is over
do_clean_return ==
    /\ cl_loop
    /\ cl_objects = {}
    /\ step_ends
    /\ UNCHANGED <<cl_variant, cl_job, cl_files, cl_forbiden, cl_deleted>>
    /\ cleanup_frame

(***************************************************************************)
(* State as a dictionary keyed by StateError._hash, used by threads.       *)
(***************************************************************************)
\* the number of State.error calls made
MaxStateCalls == 3

\* the stages and messages the threads pass to State.error
StateStages == {"a", "ab"}
StateMessages == {"c", "bc"}

\* the threads that store and clean errors
StateThreads == {"control loop", "healthcheck"}

\* StateError._hash: self.stage + self.message
hash(stage, message) == stage \o message

\* State.error: self._active_errors[new_error._hash()] = new_error
State_error(d, stage, message, updated_at) ==
    LET k == hash(stage, message)
    IN  [x \in DOMAIN d \cup {k} |->
            IF x = k THEN [updated_at |-> updated_at, stage |-> stage, message |-> message]
            ELSE d[x]]

\* State.cleanup that keeps everything
State_cleanup_nothing(values, stage) == values

\* State.cleanup: the dictionary built from the values iterated over
State_cleanup(values, stage) ==
    LET kept == {k \in DOMAIN values : values[k].stage # stage}
    IN  [k \in kept |-> values[k]]

\* State.current_errors
current_errors(d) == {d[k] : k \in DOMAIN d}

\* State.ok
State_ok(d) == current_errors(d) = {}

\* the latest call that returned
StateCall(op, thread, stage, message, raised) ==
    [op |-> op, thread |-> thread, stage |-> stage, message |-> message, raised |-> raised]

StateInit ==
    /\ st_errors = << >>
    /\ st_now = 0
    /\ st_threads = StateThreads
    /\ th_pc = [t \in StateThreads |-> "idle"]
    /\ th_stage = [t \in StateThreads |-> "a"]
    /\ th_values = [t \in StateThreads |-> << >>]
    /\ st_last = StateCall("none", "control loop", "a", "c", FALSE)
    /\ st_seen = [errors |-> {}, ok |-> TRUE]

\* the rest of the state a State call leaves alone
state_frame ==
    UNCHANGED <<cancellation_vars, agent_vars, signals, state_vars, observer_vars,
                reporter_vars, chop_vars, status_vars, fs_vars, cleanup_vars, late_vars>>

\* thread t calls error(stage, message)
State_error_call(t) ==
    /\ th_pc[t] = "idle"
    /\ st_now < MaxStateCalls
    /\ \E stage \in StateStages : \E message \in StateMessages :
          /\ st_errors' = State_error(st_errors, stage, message, st_now + 1)
          /\ st_last' = StateCall("error", t, stage, message, FALSE)
    /\ st_now' = st_now + 1
    /\ UNCHANGED <<st_threads, th_pc, th_stage, th_values, st_seen>>
    /\ state_frame

\* thread t calls cleanup(stage): the comprehension iterates over the values
State_cleanup_iterate(t) ==
    /\ th_pc[t] = "idle"
    /\ \E stage \in StateStages : th_stage' = [th_stage EXCEPT ![t] = stage]
    /\ th_values' = [th_values EXCEPT ![t] = st_errors]
    /\ th_pc' = [th_pc EXCEPT ![t] = "cleanup"]
    /\ UNCHANGED <<st_errors, st_now, st_threads, st_last, st_seen>>
    /\ state_frame

\* cleanup of thread t: the new dictionary is assigned to self._active_errors
State_cleanup_assign(t) ==
    /\ th_pc[t] = "cleanup"
    /\ st_errors' = State_cleanup(th_values[t], th_stage[t])
    /\ st_last' = StateCall("cleanup", t, th_stage[t], "c", FALSE)
    /\ th_pc' = [th_pc EXCEPT ![t] = "idle"]
    /\ th_values' = [th_values EXCEPT ![t] = << >>]
    /\ UNCHANGED <<st_now, st_threads, th_stage, st_seen>>
    /\ state_frame

\* cleanup of thread t: another thread has changed the size of the dictionary
\* while the comprehension iterated, which raises RuntimeError
State_cleanup_raise(t) ==
    /\ th_pc[t] = "cleanup"
    /\ Cardinality(DOMAIN st_errors) # Cardinality(DOMAIN th_values[t])
    /\ st_last' = StateCall("cleanup", t, th_stage[t], "c", TRUE)
    /\ th_pc' = [th_pc EXCEPT ![t] = "idle"]
    /\ th_values' = [th_values EXCEPT ![t] = << >>]
    /\ UNCHANGED <<st_errors, st_now, st_threads, th_stage, st_seen>>
    /\ state_frame

\* a thread reads current_errors() and ok
State_read ==
    /\ st_seen' = [errors |-> current_errors(st_errors), ok |-> State_ok(st_errors)]
    /\ st_seen' # st_seen
    /\ UNCHANGED <<st_errors, st_now, st_threads, th_pc, th_stage, th_values, st_last>>
    /\ state_frame

State_error_step == \E t \in st_threads : State_error_call(t)
State_cleanup_iterate_step == \E t \in st_threads : State_cleanup_iterate(t)
State_cleanup_assign_step == \E t \in st_threads : State_cleanup_assign(t)
State_cleanup_raise_step == \E t \in st_threads : State_cleanup_raise(t)

(***************************************************************************)
(* LoadtestingAgentService: the identity of the agent and its registration.*)
(***************************************************************************)
None == "None"
ANONYMOUS_AGENT_ID == None
ReadLimit == 50

\* bool(v) of a value that is None or a string
truthy(v) == v # None /\ v # ""

\* f.read(n) of a text file
read(content, n) == SubSeq(content, 1, Min(n, Len(content)))

\* an id longer than the 50 characters _load_agent_id reads
LongId == "abcdefghijabcdefghijabcdefghijabcdefghijabcdefghijk"

AgentNames == {None, "", "agent_name"}
FolderIds == {None, "", "folder_id"}
ComputeInstanceIds == {None, "instance_id"}
AgentIdFiles == {None, "agentid"}
FileContents == {None, "", "cached-id", LongId}
Configs == [instance_lt_created : BOOLEAN, compute_instance_id : ComputeInstanceIds,
            agent_name : AgentNames, folder_id : FolderIds,
            agent_id_file : AgentIdFiles, no_cache : BOOLEAN]

_identify_agent_origin(instance_lt_created, compute_instance_id) ==
    IF instance_lt_created /\ truthy(compute_instance_id)
    THEN "COMPUTE_LT_CREATED"
    ELSE "EXTERNAL"

AgentInfo(id, name, origin, folder_id) ==
    [id |-> id, name |-> name, origin |-> origin, folder_id |-> folder_id]

is_external(agent) == agent.origin = "EXTERNAL"
is_anonymous_external_agent(agent) == is_external(agent) /\ ~truthy(agent.name)
is_persistent_external_agent(agent) ==
    is_external(agent) /\ truthy(agent.name) /\ truthy(agent.folder_id)

\* create_loadtesting_agent_service and __init__: no agent_id and no
\* agent_origin are passed
create_loadtesting_agent_service(config) ==
    AgentInfo(None, config.agent_name,
              _identify_agent_origin(config.instance_lt_created, config.compute_instance_id),
              config.folder_id)

use_cached_agent_id(config) == ~config.no_cache

\* _load_agent_id: '' without a file name or without the file
_load_agent_id(agent_id_file, file) ==
    IF truthy(agent_id_file) /\ file # None THEN read(file, ReadLimit) ELSE ""

\* the calls on agent_client
NoRegistration == [op |-> "none", folder_id |-> None, name |-> None]
register_agent == [op |-> "register_agent", folder_id |-> None, name |-> None]
register_external_agent(folder_id, name) ==
    [op |-> "register_external_agent", folder_id |-> folder_id, name |-> name]

\* the ids the control plane issues
IssuedIds == {"abc", "abc-ext"}

Identified(id, call, raised) == [id |-> id, call |-> call, raised |-> raised]

loads_cached_id_never(use_cached, agent_id_file, file) == FALSE

\* line 62: use_cached_agent_id and the id loaded from the file is not empty
loads_cached_id(use_cached, agent_id_file, file) ==
    use_cached /\ truthy(_load_agent_id(agent_id_file, file))

\* _identify_agent_id, issued being the id the control plane answers with
_identify_agent_id(agent, use_cached, agent_id_file, file, folder_id, issued) ==
    IF agent.origin = "COMPUTE_LT_CREATED"
    THEN Identified(issued, register_agent, "none")
    ELSE IF loads_cached_id(use_cached, agent_id_file, file)
    THEN Identified(_load_agent_id(agent_id_file, file), NoRegistration, "none")
    ELSE IF is_persistent_external_agent(agent)
    THEN Identified(issued, register_external_agent(folder_id, agent.name), "none")
    ELSE IF is_anonymous_external_agent(agent)
    THEN Identified(ANONYMOUS_AGENT_ID, NoRegistration, "none")
    ELSE Identified(None, NoRegistration, "AgentOriginError")

RegInit ==
    /\ reg_config = [instance_lt_created |-> FALSE, compute_instance_id |-> None,
                     agent_name |-> None, folder_id |-> None,
                     agent_id_file |-> None, no_cache |-> FALSE]
    /\ reg_file = None
    /\ reg_agent = create_loadtesting_agent_service(reg_config)
    /\ reg_registered = FALSE
    /\ reg_calls = << >>
    /\ reg_last = "none"

\* register(): identifies the id unless the agent is registered or has one
register ==
    /\ \E issued \in IssuedIds :
         LET got == _identify_agent_id(reg_agent, use_cached_agent_id(reg_config),
                                       reg_config.agent_id_file, reg_file,
                                       reg_config.folder_id, issued)
             identifies == ~reg_registered /\ ~truthy(reg_agent.id)
         IN  /\ reg_calls' = IF identifies /\ got.call # NoRegistration
                             THEN Append(reg_calls, got.call)
                             ELSE reg_calls
             /\ reg_last' = IF identifies THEN
                                IF got.raised = "none" THEN "returned" ELSE got.raised
                            ELSE "returned"
             /\ reg_agent' = IF identifies /\ got.raised = "none"
                             THEN [reg_agent EXCEPT !.id = got.id]
                             ELSE reg_agent
             /\ reg_registered' = (reg_registered
                                   \/ ~identifies \/ got.raised = "none")
    /\ UNCHANGED <<reg_config, reg_file>>
    /\ UNCHANGED <<early_vars, reg_others>>

(***************************************************************************)
(* TankClient.parse_job_status: the status read from the finish status     *)
(* file of a job.                                                          *)
(***************************************************************************)
\* the RC* members of yandextank's AbstractCriterion the tests name
AUTOSTOP_EXIT_CODES == {21, 28}

\* job_status_json: a key that is absent holds None (NoExitCode for exit_code)
FileErrors == {None, "", "some error"}
FileTankMsgs == {None, "", "some tank_msg"}
FileExitCodes == {NoExitCode, 0, 1, 21, 28}
FileStatusCodes == {None, "FINISHED", "TESTING"}
StatusFiles == [error : FileErrors, tank_msg : FileTankMsgs,
                exit_code : FileExitCodes, status_code : FileStatusCodes]

\* dict.get(key, default) of a key that holds a string
get(value, default) == IF value = None THEN default ELSE value

\* `exit_code and ...`: None and 0 are false
exit_code_truthy(exit_code) == exit_code # NoExitCode /\ exit_code # 0

extract_error_of_error_only(json) ==
    [error |-> get(json.error, ""), error_type |-> None]

\* extract_error: the pair (error, error_type)
extract_error(json) ==
    IF truthy(get(json.error, ""))
    THEN [error |-> get(json.error, ""), error_type |-> None]
    ELSE IF truthy(get(json.tank_msg, ""))
    THEN [error |-> get(json.tank_msg, ""), error_type |-> INTERNAL_ERROR_TYPE]
    ELSE IF exit_code_truthy(json.exit_code) /\ json.exit_code \notin AUTOSTOP_EXIT_CODES
    THEN [error |-> "Unknown generator error", error_type |-> None]
    ELSE [error |-> get(json.tank_msg, ""), error_type |-> None]

\* JobStatus.from_status with all its arguments
JobStatus_from_status(status, message, error_type, exit_code) ==
    [status |-> status, error |-> message, error_type |-> error_type,
     exit_code |-> interpret_exit_code(exit_code, status)]

parse_job_status(json) ==
    LET e == extract_error(json)
        job_status ==
            IF ~truthy(e.error)
            THEN IF json.exit_code \in AUTOSTOP_EXIT_CODES
                 THEN "AUTOSTOPPED"
                 ELSE get(json.status_code, "FAILED")
            ELSE "FAILED"
    IN  JobStatus_from_status(job_status, e.error, e.error_type, json.exit_code)

NotParsed == JobStatus_from_status("not parsed", None, None, NoExitCode)

ParseInit ==
    /\ pjs_json = [error |-> None, tank_msg |-> None, exit_code |-> NoExitCode,
                   status_code |-> None]
    /\ pjs_result = NotParsed

\* get_job_status reads the file and returns parse_job_status of it
parse_job_status_call ==
    /\ pjs_result = NotParsed
    /\ pjs_result' = parse_job_status(pjs_json)
    /\ UNCHANGED pjs_json
    /\ UNCHANGED <<early_vars, pjs_others>>

(***************************************************************************)
(* TankClient under execute_job: the start event, the background uploaders *)
(* and the finalizers of a job.                                            *)
(***************************************************************************)
MaxClientJobs == 2
MaxRunSignals == 2

\* UltaService.sleep_time and the secs a RUN_IN signal may carry
sleep_time == 1
RunIns == 0..(sleep_time + 1)

\* the workers _register_workers creates for job j
Worker(j, kind) == [job |-> j, kind |-> kind]
TrailUploader(j) == Worker(j, "Trail Uploader")
MonitoringUploader(j) == Worker(j, "Monitoring Uploader")
ImbalanceUploader(j) == Worker(j, "Imbalance Uploader")
Nobody == Worker(0, "none")

\* one thing the client did, and to whom
Did(op, who) == [op |-> op, who |-> who]

ClientCall(op, e) == [op |-> op, exc |-> e]

\* _register_workers: two background uploaders, and the ImbalanceUploader as
\* finalizer when the job has the autostop plugin
register_workers(j, autostop, background, finalizers) ==
    [background |-> background \o <<TrailUploader(j), MonitoringUploader(j)>>,
     finalizers |-> finalizers \o (IF autostop THEN <<ImbalanceUploader(j)>> ELSE << >>)]

\* [u.start() for u in self._background_workers]: DataUploader.start raises
\* RuntimeError for a finished uploader, and a thread starts only once
RECURSIVE start_all(_, _, _)
start_all(background, ended, started) ==
    IF background = << >>
    THEN [log |-> << >>, started |-> started, exc |-> "none"]
    ELSE IF Head(background) \in ended \cup started
    THEN [log |-> << >>, started |-> started, exc |-> "RuntimeError"]
    ELSE LET r == start_all(Tail(background), ended, started \cup {Head(background)})
         IN  [log |-> <<Did("start", Head(background))>> \o r.log,
              started |-> r.started, exc |-> r.exc]

\* TankClient.run_job
client_run(event, background, ended, started) ==
    IF event = "None"
    THEN [event |-> event, log |-> << >>, started |-> started, exc |-> "TankError"]
    ELSE IF event # "set"
    THEN LET r == start_all(background, ended, started)
         IN  [event |-> "set", log |-> <<Did("set", Nobody)>> \o r.log,
              started |-> r.started, exc |-> r.exc]
    ELSE [event |-> event, log |-> << >>, started |-> started, exc |-> "none"]

\* TankClient.stop_job: a live worker is stopped and joined with a timeout
client_stop(worker) == IF worker = "alive" THEN {"dead", "alive"} ELSE {worker}

\* `for post_action in self._finalizers: post_action.run()`: ImbalanceUploader.run
\* purges its queue and, with an entry found, calls set_imbalance_and_dsc,
\* which raises fails unless fails is "none"
RECURSIVE run_all(_, _, _)
run_all(finalizers, queue, fails) ==
    IF finalizers = << >>
    THEN [log |-> << >>, queue |-> queue, exc |-> "none"]
    ELSE LET f == Head(finalizers)
             r == run_all(Tail(finalizers), queue \ {f}, fails)
         IN  IF f \in queue /\ fails # "none"
             THEN [log |-> <<Did("run", f)>>, queue |-> queue \ {f}, exc |-> fails]
             ELSE [log |-> <<Did("run", f)>> \o r.log, queue |-> r.queue, exc |-> r.exc]

\* TankClient.finish, the worker being as stop_job left it: every background
\* uploader is finished, every finalizer is run, then cleanup()
client_finish_all(worker, event, background, finalizers, ended, started, queue, fails) ==
    LET r == run_all(finalizers, queue, fails)
        finishes == [i \in 1..Len(background) |-> Did("finish", background[i])]
        finished_now == ended \cup {background[i] : i \in 1..Len(background)}
    IN  IF r.exc = "none"
        THEN [worker |-> "None", event |-> "None", background |-> << >>,
              finalizers |-> << >>, finished |-> {}, started |-> {}, queue |-> r.queue,
              log |-> <<Did("stop_job", Nobody)>> \o finishes \o r.log
                        \o <<Did("cleanup", Nobody)>>,
              exc |-> "none"]
        ELSE [worker |-> worker, event |-> event, background |-> background,
              finalizers |-> finalizers, finished |-> finished_now, started |-> started,
              queue |-> r.queue,
              log |-> <<Did("stop_job", Nobody)>> \o finishes \o r.log,
              exc |-> r.exc]

FinalizerOutcomes == {"none"} \cup BackendErrors

ClientInit ==
    /\ tc_pc = "idle"
    /\ tc_job = 0
    /\ tc_worker = "None"
    /\ tc_event = "None"
    /\ tc_background = << >>
    /\ tc_finalizers = << >>
    /\ tc_finished = {}
    /\ tc_started = {}
    /\ tc_queue = {}
    /\ tc_signals = << >>
    /\ tc_log = << >>
    /\ tc_finishes = 0
    /\ tc_last_finish = << >>
    /\ tc_last = ClientCall("none", "none")

client_frame == UNCHANGED <<early_vars, tc_others>>

\* execute_job: await_tank_is_ready has found the tank idle and prepare_job
\* is called for the next job, with or without the autostop plugin
tc_prepare_job ==
    /\ tc_pc = "idle"
    /\ tc_job < MaxClientJobs
    /\ tc_worker # "alive"
    /\ tc_job' = tc_job + 1
    /\ tc_signals' = << >>
    /\ tc_log' = << >>
    /\ tc_finishes' = 0
    /\ \E outcome \in PrepareOutcomes : \E autostop \in BOOLEAN :
         LET r == register_workers(tc_job', autostop, tc_background, tc_finalizers) IN
         CASE outcome = "RuntimeError" ->
                /\ tc_pc' = "finally"
                /\ tc_last' = ClientCall("prepare_job", "RuntimeError")
                /\ UNCHANGED <<tc_worker, tc_event, tc_background, tc_finalizers>>
           [] outcome = "TankError" ->
                /\ tc_pc' = "finally"
                /\ tc_event' = "clear"
                /\ tc_last' = ClientCall("prepare_job", "TankError")
                /\ UNCHANGED <<tc_worker, tc_background, tc_finalizers>>
           [] outcome = "TankError_worker" ->
                /\ tc_pc' = "finally"
                /\ tc_event' = "clear"
                /\ tc_worker' = "dead"
                /\ tc_last' = ClientCall("prepare_job", "TankError")
                /\ UNCHANGED <<tc_background, tc_finalizers>>
           [] outcome = "ok" ->
                /\ tc_pc' = "monitor"
                /\ tc_event' = "clear"
                /\ tc_worker' = "alive"
                /\ tc_background' = r.background
                /\ tc_finalizers' = r.finalizers
                /\ tc_last' = ClientCall("prepare_job", "none")
    /\ UNCHANGED <<tc_finished, tc_started, tc_queue, tc_last_finish>>
    /\ client_frame

\* serve_lt_signal gets RUN_IN: serve_run_signal returns for a run_in beyond
\* sleep_time, else it calls run_job
tc_serve_run_signal ==
    /\ tc_pc = "monitor"
    /\ Len(tc_signals) < MaxRunSignals
    /\ \E run_in \in RunIns :
         /\ tc_signals' = Append(tc_signals, run_in)
         /\ IF run_in > sleep_time
            THEN UNCHANGED <<tc_pc, tc_event, tc_started, tc_log, tc_last>>
            ELSE LET r == client_run(tc_event, tc_background, tc_finished, tc_started) IN
                 /\ tc_event' = r.event
                 /\ tc_started' = r.started
                 /\ tc_log' = tc_log \o r.log
                 /\ tc_last' = ClientCall("run_job", r.exc)
                 /\ tc_pc' = IF r.exc = "none" THEN tc_pc ELSE "finally"
    /\ UNCHANGED <<tc_job, tc_worker, tc_background, tc_finalizers, tc_finished, tc_queue,
                   tc_finishes, tc_last_finish>>
    /\ client_frame

\* serve_lt_signal gets STOP: stop_job, then JobStoppedError leaves the loop;
\* or the loop is left by another exception, with no call on the client
tc_leave_loop ==
    /\ tc_pc = "monitor"
    /\ tc_pc' = "finally"
    /\ \/ /\ tc_worker' \in client_stop(tc_worker)
          /\ tc_log' = Append(tc_log, Did("stop_job", Nobody))
          /\ tc_last' = ClientCall("stop_job", "JobStoppedError")
       \/ /\ tc_last' = ClientCall("none", "CancellationRequest")
          /\ UNCHANGED <<tc_worker, tc_log>>
    /\ UNCHANGED <<tc_job, tc_event, tc_background, tc_finalizers, tc_finished, tc_started,
                   tc_queue, tc_signals, tc_finishes, tc_last_finish>>
    /\ client_frame

\* the parts both finish() calls of execute_job share
tc_finish(next_pc) ==
    \E w \in client_stop(tc_worker) : \E fails \in FinalizerOutcomes :
      LET r == client_finish_all(w, tc_event, tc_background, tc_finalizers, tc_finished,
                                 tc_started, tc_queue, fails) IN
      /\ tc_worker' = r.worker
      /\ tc_event' = r.event
      /\ tc_background' = r.background
      /\ tc_finalizers' = r.finalizers
      /\ tc_finished' = r.finished
      /\ tc_started' = r.started
      /\ tc_queue' = r.queue
      /\ tc_log' = tc_log \o r.log
      /\ tc_last_finish' = r.log
      /\ tc_finishes' = tc_finishes + 1
      /\ tc_last' = ClientCall("finish", r.exc)
      /\ tc_pc' = next_pc
      /\ UNCHANGED <<tc_job, tc_signals>>
      /\ client_frame

\* serve_lt_job: the job status is a finished one and finish() is called;
\* the loop ends whether finish() returns or raises
tc_serve_finished == tc_pc = "monitor" /\ tc_finish("finally")

\* execute_job's finally block: stop_job(), finish()
tc_finally == tc_pc = "finally" /\ tc_finish("idle")

\* run_job called by a caller that has no job in hand
tc_run_job ==
    /\ tc_pc = "idle"
    /\ LET r == client_run(tc_event, tc_background, tc_finished, tc_started) IN
       /\ tc_event' = r.event
       /\ tc_started' = r.started
       /\ tc_log' = tc_log \o r.log
       /\ tc_last' = ClientCall("run_job", r.exc)
    /\ tc_last' # tc_last \/ tc_event' # tc_event
    /\ UNCHANGED <<tc_pc, tc_job, tc_worker, tc_background, tc_finalizers, tc_finished,
                   tc_queue, tc_signals, tc_finishes, tc_last_finish>>
    /\ client_frame

\* the generator worker exits
tc_worker_exits ==
    /\ tc_worker = "alive"
    /\ tc_worker' = "dead"
    /\ UNCHANGED <<tc_pc, tc_job, tc_event, tc_background, tc_finalizers, tc_finished,
                   tc_started, tc_queue, tc_signals, tc_log, tc_finishes, tc_last_finish,
                   tc_last>>
    /\ client_frame

\* the autostop plugin of the running job puts an ImbalanceEntry into the
\* queue of the job's ImbalanceUploader
tc_imbalance ==
    /\ tc_pc = "monitor"
    /\ tc_worker = "alive"
    /\ \E i \in 1..Len(tc_finalizers) : tc_finalizers[i] = ImbalanceUploader(tc_job)
    /\ ImbalanceUploader(tc_job) \notin tc_queue
    /\ tc_queue' = tc_queue \cup {ImbalanceUploader(tc_job)}
    /\ UNCHANGED <<tc_pc, tc_job, tc_worker, tc_event, tc_background, tc_finalizers,
                   tc_finished, tc_started, tc_signals, tc_log, tc_finishes, tc_last_finish,
                   tc_last>>
    /\ client_frame

\* ---------------------------------------------------------------------
\* The admin API (StateApp) beside the control loop serve().  The state
\* stack is State._state_stack: a stage name is on it only while a thread
\* is inside an observe() scope.  The main thread is inside one while it
\* asks the backend for a job and while it serves one round of a job; the
\* healthcheck thread is inside one while a healthcheck runs.
\* ---------------------------------------------------------------------

ALIVE == "ALIVE"
SHUTTING_DOWN == "SHUTTING_DOWN"
SHUTDOWN == "SHUTDOWN"

\* State.is_alive
State_is_alive(stack) == stack # << >>

\* StateApp._service_state
_service_state(stack, type) ==
    IF ~State_is_alive(stack) THEN SHUTDOWN
    ELSE IF type >= GRACEFUL THEN SHUTTING_DOWN
    ELSE ALIVE

\* State.enter_state: append on entry, pop() on exit (pop removes the last
\* element of the list, whichever thread appended it)
enter_state(stack, name) == Append(stack, name)
leave_state(stack) == SubSeq(stack, 1, Len(stack) - 1)

NoResponse == [route |-> "none", state |-> "none", status |-> 0, pc |-> "none"]
Response(route, state, status, at) ==
    [route |-> route, state |-> state, status |-> status, pc |-> at]

ApiInit ==
    /\ api_pc = "serve"
    /\ api_stack = << >>
    /\ api_type = NOT_SET
    /\ api_hc = "idle"
    /\ api_response = NoResponse

\* StateApp.get_health
get_health ==
    /\ api_response' = Response("health", _service_state(api_stack, api_type), 200, api_pc)
    /\ UNCHANGED <<api_pc, api_stack, api_type, api_hc>>
    /\ UNCHANGED <<early_vars, api_others>>

\* StateApp.shutdown: notify, then answer 200 when SHUTDOWN and 102 otherwise
shutdown ==
    \E forced \in BOOLEAN :
        LET type == notify_update(api_type, IF forced THEN FORCED ELSE GRACEFUL)
            state == _service_state(api_stack, type)
        IN /\ api_type' = type
           /\ api_response' = Response("shutdown", state,
                                       IF state = SHUTDOWN THEN 200 ELSE 102, api_pc)
           /\ UNCHANGED <<api_pc, api_stack, api_hc>>
           /\ UNCHANGED <<early_vars, api_others>>

\* HealthCheck.healthcheck enters observe(stage='healthcheck'); a FORCED
\* cancellation raises before the scope is entered and the worker's error
\* handler swallows it
healthcheck_enter ==
    /\ api_hc = "idle"
    /\ api_pc # "stopped"
    /\ api_type < FORCED
    /\ api_stack' = enter_state(api_stack, "healthcheck")
    /\ api_hc' = "healthcheck"
    /\ UNCHANGED <<api_pc, api_type, api_response>>
    /\ UNCHANGED <<early_vars, api_others>>

healthcheck_exit ==
    /\ api_hc = "healthcheck"
    /\ api_stack' = leave_state(api_stack)
    /\ api_hc' = "idle"
    /\ UNCHANGED <<api_pc, api_type, api_response>>
    /\ UNCHANGED <<early_vars, api_others>>

serve_frame == /\ UNCHANGED <<api_type, api_hc, api_response>>
               /\ UNCHANGED <<early_vars, api_others>>

\* serve: `while not self.cancellation.is_set()`
serve_loop ==
    /\ api_pc = "serve"
    /\ api_pc' = IF api_type >= GRACEFUL THEN "stopped" ELSE "wait_for_a_job"
    /\ UNCHANGED api_stack
    /\ serve_frame

\* wait_for_a_job: raise_on_set(), then observe('request new test from
\* backend') is entered; a CancellationRequest ends in sustain_service
serve_wait_for_a_job ==
    /\ api_pc = "wait_for_a_job"
    /\ IF api_type >= GRACEFUL
       THEN /\ api_pc' = "sleep"
            /\ UNCHANGED api_stack
       ELSE /\ api_pc' = "get_job"
            /\ api_stack' = enter_state(api_stack, "request new test from backend")
    /\ serve_frame

\* get_job inside the scope: a job, no job, or an error that leaves
\* through sustain_service
serve_get_job ==
    /\ api_pc = "get_job"
    /\ api_stack' = leave_state(api_stack)
    /\ api_pc' \in {"execute_job", "job_pooling_delay", "sleep"}
    /\ serve_frame

\* time.sleep(self.job_pooling_delay)
serve_pooling_delay ==
    /\ api_pc = "job_pooling_delay"
    /\ api_pc' = "wait_for_a_job"
    /\ UNCHANGED api_stack
    /\ serve_frame

\* execute_job: await_tank_is_ready and prepare_job, before any scope
serve_execute_job ==
    /\ api_pc = "execute_job"
    /\ api_pc' \in {"serve_lt_job", "finally"}
    /\ UNCHANGED api_stack
    /\ serve_frame

\* serve_lt_job: raise_on_set(), then sustain_job() is entered
serve_lt_job_round ==
    /\ api_pc = "serve_lt_job"
    /\ IF api_type >= GRACEFUL
       THEN /\ api_pc' = "finally"
            /\ UNCHANGED api_stack
       ELSE /\ api_pc' = "sustain_job"
            /\ api_stack' = enter_state(api_stack, "execute test")
    /\ serve_frame

\* the round inside sustain_job ends: the job goes on, or is over
serve_sustain_job ==
    /\ api_pc = "sustain_job"
    /\ api_stack' = leave_state(api_stack)
    /\ api_pc' \in {"job_sleep", "finally"}
    /\ serve_frame

\* time.sleep(self.sleep_time) inside serve_lt_job
serve_job_sleep ==
    /\ api_pc = "job_sleep"
    /\ api_pc' = "serve_lt_job"
    /\ UNCHANGED api_stack
    /\ serve_frame

\* the handlers and the finally block of execute_job; an exception that no
\* handler lists skips publish_artifacts
serve_finally ==
    /\ api_pc = "finally"
    /\ api_pc' \in {"publish_artifacts", "sleep"}
    /\ UNCHANGED api_stack
    /\ serve_frame

\* publish_artifacts
serve_publish_artifacts ==
    /\ api_pc = "publish_artifacts"
    /\ api_pc' = "sleep"
    /\ UNCHANGED api_stack
    /\ serve_frame

\* time.sleep(self.sleep_time) at the end of a round of serve
serve_sleep ==
    /\ api_pc = "sleep"
    /\ api_pc' = "serve"
    /\ UNCHANGED api_stack
    /\ serve_frame

\* ---------------------------------------------------------------------
\* DataUploader: the uploader thread takes entries from its queue and
\* sends each with _send_with_retry.
\* ---------------------------------------------------------------------

api_attempts == 10

\* bounds: entries the thread takes, and send_data calls counted per entry
MaxEntries == 2
MaxAttempts == 12

\* what one send_data call does: returns 0, returns another code, raises
\* one of LOADTESTING_UNAVAILABLE_ERRORS, or raises something else
SendOutcomes == {"zero", "nonzero", "unavailable", "other"}

\* DataUploader.api_timeouts: a generator of api_attempts - 1 timeouts
api_timeouts == api_attempts - 1

UploaderInit ==
    /\ su_pc = "get"
    /\ su_entries = 0
    /\ su_attempts = 0
    /\ su_timeouts = 0
    /\ su_interrupted = FALSE
    /\ su_last = "none"

\* _uploader: `while not self.interrupted.is_set()` and data_queue.get;
\* None in the queue ends the thread
uploader_get ==
    /\ su_pc = "get"
    /\ IF su_interrupted
       THEN /\ su_pc' = "finished"
            /\ UNCHANGED <<su_entries, su_attempts, su_timeouts>>
       ELSE \/ /\ su_entries < MaxEntries
               /\ su_pc' = "send"
               /\ su_entries' = su_entries + 1
               /\ su_attempts' = 0
               /\ su_timeouts' = api_timeouts
            \/ /\ su_pc' = "finished"
               /\ UNCHANGED <<su_entries, su_attempts, su_timeouts>>
    /\ UNCHANGED <<su_interrupted, su_last>>
    /\ UNCHANGED <<early_vars, su_others>>

\* one pass of the loop of _send_with_retry after send_data ended with
\* outcome: where the thread goes, what is left of the generator, and how
\* the pass ended
retry_step(outcome, timeouts) ==
    CASE outcome = "zero" -> [pc |-> "get", timeouts |-> timeouts, last |-> "sent"]
      [] outcome = "nonzero" -> [pc |-> "send", timeouts |-> timeouts, last |-> "code"]
      [] outcome = "unavailable" ->
            IF timeouts > 0
            THEN [pc |-> "send", timeouts |-> timeouts - 1, last |-> "retry"]
            ELSE [pc |-> "get", timeouts |-> timeouts, last |-> "_Interrupt"]
      [] OTHER -> [pc |-> "get", timeouts |-> timeouts, last |-> "skipped"]

\* _send_with_retry, one pass: the loop ends when interrupted is set;
\* _Interrupt is caught by _uploader, which sets interrupted
_send_with_retry ==
    /\ su_pc = "send"
    /\ IF su_interrupted
       THEN /\ su_pc' = "get"
            /\ su_last' = "interrupted"
            /\ UNCHANGED <<su_attempts, su_timeouts, su_interrupted>>
       ELSE /\ su_attempts < MaxAttempts
            /\ \E outcome \in SendOutcomes :
                  LET r == retry_step(outcome, su_timeouts)
                  IN /\ su_attempts' = su_attempts + 1
                     /\ su_pc' = r.pc
                     /\ su_timeouts' = r.timeouts
                     /\ su_last' = r.last
                     /\ su_interrupted' = (r.last = "_Interrupt")
    /\ UNCHANGED su_entries
    /\ UNCHANGED <<early_vars, su_others>>

\* DataUploader.stop, called from another thread
uploader_stop ==
    /\ ~su_interrupted
    /\ su_pc # "finished"
    /\ su_interrupted' = TRUE
    /\ UNCHANGED <<su_pc, su_entries, su_attempts, su_timeouts, su_last>>
    /\ UNCHANGED <<early_vars, su_others>>

\* ---------------------------------------------------------------------
\* LogMessageProcessor: the labels of a log message.  A mapping's items
\* are a sequence of [k, v] records in iteration order; the labels made
\* are a function from key to value.
\* ---------------------------------------------------------------------

\* bound: the largest max_labels_size tried
MaxLabelsSize == 24

ph == "..."
ph_len == Len(ph)

\* a length of None
NoLength == 0 - 1

\* truncate_string(value, length, cut_in_middle)
truncate_string(value, length, cut_in_middle) ==
    IF length = NoLength \/ Len(value) <= length THEN value
    ELSE IF length \div 5 < ph_len THEN SubSeq(value, 1, length)
    ELSE IF cut_in_middle
         THEN LET left_edge == length \div 2
                  right_edge == Len(value) - left_edge + ph_len - (length % 2)
              IN SubSeq(value, 1, left_edge) \o ph \o SubSeq(value, right_edge + 1, Len(value))
         ELSE SubSeq(value, 1, length - ph_len) \o ph

\* LogMessageProcessor._get_object_str
_get_object_str(obj) == IF obj = None THEN "" ELSE obj

\* LogMessageProcessor._get_args_pair_size
_get_args_pair_size(k, v) == Len(k) + Len(_get_object_str(v))

\* len(repr(value)): a string is shown in quotes, None as None
repr_len(v) == IF v = None THEN 4 ELSE Len(v) + 2

\* result[key] = value
set_label(result, k, v) == [x \in DOMAIN result \cup {k} |-> IF x = k THEN v ELSE result[x]]

\* result.update(other)
update_labels(result, other) ==
    [x \in DOMAIN result \cup DOMAIN other |-> IF x \in DOMAIN other THEN other[x] ELSE result[x]]

NoLabels == [x \in {} |-> ""]

\* the loop of _make_labels from item i on: the labels made, the remaining
\* size, and whether the loop was left by break
RECURSIVE make_labels_loop(_, _, _, _)
make_labels_loop(source, i, result, remaining_size) ==
    IF i > Len(source) THEN [labels |-> result, remaining |-> remaining_size, stopped |-> FALSE]
    ELSE LET p == source[i]
             p1 == _get_object_str(p.v)
             pair_size == _get_args_pair_size(p.k, p1)
         IN IF pair_size > remaining_size
            THEN IF remaining_size < Len(p.k)
                 THEN [labels |-> result, remaining |-> remaining_size, stopped |-> TRUE]
                 ELSE [labels |-> set_label(result, p.k,
                                    truncate_string(p1, remaining_size - Len(p.k), FALSE)),
                       remaining |-> remaining_size, stopped |-> TRUE]
            ELSE make_labels_loop(source, i + 1, set_label(result, p.k, p1),
                                  remaining_size - pair_size)

\* LogMessageProcessor._make_labels
_make_labels(source, max_size) ==
    LET r == make_labels_loop(source, 1, NoLabels, IF max_size < 0 THEN 1000000 ELSE max_size)
    IN [labels |-> r.labels,
        remaining |-> IF max_size < 0 THEN max_size ELSE r.remaining,
        stopped |-> r.stopped]

\* sorted(items, key=lambda p: len(repr(p[1]))): stable
RECURSIVE insert_by_repr(_, _)
insert_by_repr(sorted, p) ==
    IF sorted = << >> THEN <<p>>
    ELSE IF repr_len(p.v) < repr_len(sorted[Len(sorted)].v)
         THEN Append(insert_by_repr(SubSeq(sorted, 1, Len(sorted) - 1), p), sorted[Len(sorted)])
         ELSE Append(sorted, p)

RECURSIVE sorted_by_repr(_)
sorted_by_repr(items) ==
    IF items = << >> THEN << >>
    ELSE insert_by_repr(sorted_by_repr(SubSeq(items, 1, Len(items) - 1)), items[Len(items)])

\* record.args, or extra context_labels, that is not a mapping
NotMapping == <<[k |-> "not a mapping", v |-> None]>>

\* LogMessageProcessor._prepare_labels, with what each _make_labels call
\* did kept beside the labels
_prepare_labels(context_labels, args, max_labels_size) ==
    LET c == IF context_labels # NotMapping
             THEN _make_labels(context_labels, max_labels_size)
             ELSE [labels |-> NoLabels, remaining |-> max_labels_size, stopped |-> FALSE]
        a == IF args # NotMapping
             THEN _make_labels(sorted_by_repr(args), c.remaining)
             ELSE [labels |-> NoLabels, remaining |-> c.remaining, stopped |-> FALSE]
    IN [labels |-> update_labels(c.labels, a.labels),
        context_stopped |-> c.stopped,
        args_labels |-> a.labels]

\* the size of the labels: the lengths of the keys and of the values
RECURSIVE labels_len_of(_, _)
labels_len_of(labels, keys) ==
    IF keys = {} THEN 0
    ELSE LET k == CHOOSE x \in keys : TRUE
         IN Len(k) + Len(labels[k]) + labels_len_of(labels, keys \ {k})

_get_labels_len(labels) == labels_len_of(labels, DOMAIN labels)

Label(k, v) == [k |-> k, v |-> v]

ContextLabelSets ==
    { NotMapping,
      << >>,
      <<Label("agent_id", "idid")>>,
      <<Label("agent_id", "idid"), Label("agent_name", "my-name")>>,
      <<Label("agent_id", "an-agent-with-a-long-identifier")>> }

ArgSets ==
    { NotMapping,
      << >>,
      <<Label("a", "b")>>,
      <<Label("vv", "123456789012345678901234567890")>>,
      <<Label("attr_0", "value-0"), Label("attr_1", "v1"), Label("n", None)>>,
      <<Label("agent_id", "x"), Label("k", "0123456789")>> }

MaxLabelsSizes == {0 - 1} \cup (0 .. MaxLabelsSize)

NotPrepared == [labels |-> NoLabels, context_stopped |-> FALSE, args_labels |-> NoLabels]

LabelsInit ==
    /\ lb_context = NotMapping
    /\ lb_args = NotMapping
    /\ lb_max = 0 - 1
    /\ lb_done = FALSE
    /\ lb_result = NotPrepared

\* prepare_log_record builds the labels of one record
prepare_log_record ==
    /\ ~lb_done
    /\ lb_done' = TRUE
    /\ lb_result' = _prepare_labels(lb_context, lb_args, lb_max)
    /\ UNCHANGED <<lb_context, lb_args, lb_max>>
    /\ UNCHANGED <<early_vars, lb_others>>

LateInit ==
    /\ RegInit
    /\ ParseInit
    /\ ClientInit
    /\ ApiInit
    /\ UploaderInit
    /\ LabelsInit

\* the parts after the StatusReporter
OtherInit ==
    /\ FsInit
    /\ CleanupInit
    /\ StateInit
    /\ LateInit

\* the parts that are neither the agent, the observer, the Reporter nor _chop
RestInit ==
    /\ StatusInit
    /\ OtherInit

\* the parts of the program that are not the agent, the observer or the Reporter
MoreInit ==
    /\ ChopInit
    /\ RestInit

(***************************************************************************)
(* The specification of the agent.                                         *)
(***************************************************************************)
\* the state of the parts the control loop does not touch
AuxInit ==
    /\ signals = 0
    /\ active_errors = {}
    /\ state_stack = << >>
    /\ obs_frames = << >>
    /\ obs_exc = "none"
    /\ obs_last = ObsLast("none", "none", "none")
    /\ ReporterInit(FALSE)

\* the agent before serve() is called
AgentInit ==
    /\ current_type = NOT_SET
    /\ cancel_lock = "free"
    /\ notify_level = NOT_SET
    /\ forced_notified = FALSE
    /\ tank_worker = NoWorker
    /\ shooting_event = "None"
    /\ background_workers = 0
    /\ lock_dir_locked = FALSE
    /\ pc = "serve"
    /\ job = NoJob
    /\ next_id = 1
    /\ exc = "none"
    /\ done = FALSE
    /\ upl_idx = 1
    /\ upl_applicable = {}
    /\ upl_invoked = {}
    /\ upl_failed = {}
    /\ upl_reported = {}
    /\ override_status = "None"
    /\ rpc = NoCall
    /\ tank_calls = << >>
    /\ finished_claimed = {}

Init == AgentInit /\ AuxInit /\ MoreInit

\* the steps of the control-loop thread
ControlLoop ==
    \/ serve
    \/ wait_for_a_job
    \/ get_job
    \/ get_job_except
    \/ await_tank_is_ready
    \/ execute_job_prepare
    \/ serve_lt_job
    \/ serve_lt_signal
    \/ serve_lt_status
    \/ execute_job_except
    \/ execute_job_finally
    \/ publish_artifacts
    \/ publish_artifacts_uploader
    \/ publish_artifacts_return
    \/ sustain_service_exit

Next ==
    \/ ControlLoop
    \/ NotifyEnter
    \/ NotifyExit
    \/ WorkerProgress
    \/ LockDirChange

Spec == Init /\ [][Next]_vars

\* the control-loop thread keeps running: every call it makes returns
FairSpec == Spec /\ WF_vars(ControlLoop)

(***************************************************************************)
(* TankClient on its own, under a caller that makes any call in any order. *)
(***************************************************************************)
\* the background workers a caller may pile up by preparing again and again
MaxRegistered == 4

InitTank ==
    /\ current_type = NOT_SET
    /\ cancel_lock = "free"
    /\ notify_level = NOT_SET
    /\ forced_notified = FALSE
    /\ tank_worker = NoWorker
    /\ shooting_event = "None"
    /\ background_workers = 0
    /\ lock_dir_locked = FALSE
    /\ pc = "tank_idle"
    /\ job = NoJob
    /\ next_id = 1
    /\ exc = "none"
    /\ done = FALSE
    /\ upl_idx = 1
    /\ upl_applicable = {}
    /\ upl_invoked = {}
    /\ upl_failed = {}
    /\ upl_reported = {}
    /\ override_status = "None"
    /\ rpc = NoCall
    /\ tank_calls = << >>
    /\ finished_claimed = {}
    /\ AuxInit
    /\ MoreInit

\* tank_client.prepare_job(job, files) for a job of the caller's choice
client_prepare_job ==
    /\ pc = "tank_idle"
    /\ \E id \in 1..MaxJobs : \E outcome \in PrepareOutcomes :
        LET r == prepare_job(NewJob(id), tank_worker, shooting_event, background_workers,
                             lock_dir_locked, outcome) IN
        /\ r.bg <= MaxRegistered
        /\ job' = r.job
        /\ exc' = r.exc
        /\ tank_worker' = r.worker
        /\ shooting_event' = r.event
        /\ background_workers' = r.bg
    /\ pc' = "tank_prepare_job"
    /\ tank_calls' = Push(tank_calls, "prepare_job")
    /\ UNCHANGED <<cancellation_vars, lock_dir_locked, next_id, done, publish_vars, rpc,
                   finished_claimed>>
    /\ UNCHANGED aux_vars

\* tank_client.run_job()
client_run_job ==
    /\ pc = "tank_idle"
    /\ LET r == run_job(shooting_event) IN
        /\ exc' = r.exc
        /\ shooting_event' = r.event
    /\ pc' = "tank_run_job"
    /\ tank_calls' = Push(tank_calls, "run_job")
    /\ UNCHANGED <<cancellation_vars, tank_worker, background_workers, lock_dir_locked, job,
                   next_id, done, publish_vars, rpc, finished_claimed>>
    /\ UNCHANGED aux_vars

\* tank_client.stop_job()
client_stop_job ==
    /\ pc = "tank_idle"
    /\ \E w \in StopOutcomes(tank_worker) : tank_worker' = w
    /\ pc' = "tank_stop_job"
    /\ tank_calls' = Push(tank_calls, "stop_job")
    /\ UNCHANGED <<cancellation_vars, shooting_event, background_workers, lock_dir_locked,
                   job, next_id, exc, done, publish_vars, rpc, finished_claimed>>
    /\ UNCHANGED aux_vars

\* tank_client.finish()
client_finish ==
    /\ pc = "tank_idle"
    /\ tank_worker' = cleanup.worker
    /\ shooting_event' = cleanup.event
    /\ background_workers' = cleanup.bg
    /\ pc' = "tank_finish"
    /\ tank_calls' = Push(tank_calls, "finish")
    /\ UNCHANGED <<cancellation_vars, lock_dir_locked, job, next_id, exc, done,
                   publish_vars, rpc, finished_claimed>>
    /\ UNCHANGED aux_vars

\* the caller has seen the result of its call
client_return ==
    /\ pc \in {"tank_prepare_job", "tank_run_job", "tank_stop_job", "tank_finish"}
    /\ pc' = "tank_idle"
    /\ exc' = "none"
    /\ UNCHANGED <<cancellation_vars, tank_vars, lock_dir_locked, job, next_id, done,
                   publish_vars, rpc, tank_calls, finished_claimed>>
    /\ UNCHANGED aux_vars

NextTank ==
    \/ client_prepare_job
    \/ client_run_job
    \/ client_stop_job
    \/ client_finish
    \/ client_return
    \/ WorkerProgress
    \/ LockDirChange

SpecTank == InitTank /\ [][NextTank]_vars

(***************************************************************************)
(* The agent with termination signals as the only source of cancellation.  *)
(***************************************************************************)
NextSignals ==
    \/ ControlLoop
    \/ terminate
    \/ NotifyExit
    \/ WorkerProgress
    \/ LockDirChange

SpecSignals == Init /\ [][NextSignals]_vars

(***************************************************************************)
(* The observer, with termination signals notifying Cancellation.          *)
(***************************************************************************)
NextObserver ==
    \/ observe_enter
    \/ observe_body_raises
    \/ observe_except
    \/ observe_exit
    \/ observe_caller_catches
    \/ terminate
    \/ NotifyExit

SpecObserver == Init /\ [][NextObserver]_vars

(***************************************************************************)
(* The Reporter on its own: producers, the clock, the worker thread and    *)
(* the final forced report.                                                *)
(***************************************************************************)
InitReporter ==
    /\ current_type = NOT_SET
    /\ cancel_lock = "free"
    /\ notify_level = NOT_SET
    /\ forced_notified = FALSE
    /\ tank_worker = NoWorker
    /\ shooting_event = "None"
    /\ background_workers = 0
    /\ lock_dir_locked = FALSE
    /\ pc = "serve"
    /\ job = NoJob
    /\ next_id = 1
    /\ exc = "none"
    /\ done = FALSE
    /\ upl_idx = 1
    /\ upl_applicable = {}
    /\ upl_invoked = {}
    /\ upl_failed = {}
    /\ upl_reported = {}
    /\ override_status = "None"
    /\ rpc = NoCall
    /\ tank_calls = << >>
    /\ finished_claimed = {}
    /\ signals = 0
    /\ active_errors = {}
    /\ state_stack = << >>
    /\ obs_frames = << >>
    /\ obs_exc = "none"
    /\ obs_last = ObsLast("none", "none", "none")
    /\ \E use_exponential_backoff \in BOOLEAN : ReporterInit(use_exponential_backoff)
    /\ MoreInit

\* the Reporter inside Reporter.run, from the start of the worker thread to the
\* final report
NextRun ==
    \/ source_put
    \/ tick
    \/ worker_iteration
    \/ worker_iteration_report
    \/ worker_exit
    \/ run_exit_stop
    \/ run_exit_join
    \/ run_exit_report

\* a Reporter built with use_exponential_backoff=True
InitRun ==
    /\ InitReporter
    /\ \A h \in Handlers : handler_managers[h].kind = "_AttemptManager"

SpecRun == InitRun /\ [][NextRun]_vars

\* _chop called with any list and any size
InitChop ==
    /\ AgentInit
    /\ AuxInit
    /\ chop_data \in ChopLists
    /\ chop_size \in ChopSizes
    /\ chop_result = << >>
    /\ chop_pc = "call"
    /\ RestInit

NextChop == chop_call

SpecChop == InitChop /\ [][NextChop]_vars

(***************************************************************************)
(* The StatusReporter inside its run scope, with the threads that change   *)
(* State, the tank status and Cancellation.                                *)
(***************************************************************************)
NextStatus ==
    \/ status_worker_report
    \/ status_worker_notify
    \/ status_worker_notified
    \/ status_worker_exit
    \/ status_run_exit_stop
    \/ status_run_exit_join
    \/ status_run_exit_report
    \/ status_provided_changes
    \/ status_state_changes
    \/ status_other_notify_enter
    \/ status_other_notify_exit

SpecStatus == Init /\ [][NextStatus]_vars

\* report_tank_status called with any arguments, any status of the provider
\* and any errors in State
InitStatusCall ==
    /\ AgentInit
    /\ signals = 0
    /\ active_errors \in SUBSET {StateError(stage, "ValueError") : stage \in Stages}
    /\ state_stack = << >>
    /\ obs_frames = << >>
    /\ obs_exc = "none"
    /\ obs_last = ObsLast("none", "none", "none")
    /\ ReporterInit(FALSE)
    /\ ChopInit
    /\ provided_status \in TankStatus
    /\ sr_run_pc = "in_scope"
    /\ sr_worker_pc = "waiting"
    /\ sr_final_claims = 0
    /\ sr_last = NoStatusCall
    /\ OtherInit

NextStatusCall == report_tank_status_call

SpecStatusCall == InitStatusCall /\ [][NextStatusCall]_vars

(***************************************************************************)
(* The healthcheck thread's free-space checks beside the main path.        *)
(***************************************************************************)
NextFs ==
    \/ execute_job_acquire
    \/ execute_job_release
    \/ check_free_space
    \/ check_free_space_cleaned

SpecFs == Init /\ [][NextFs]_vars

(***************************************************************************)
(* One cleanup() call of a FilesystemCleanup of either class, for any      *)
(* files found.                                                            *)
(***************************************************************************)
InitCleanup ==
    /\ AgentInit
    /\ AuxInit
    /\ ChopInit
    /\ StatusInit
    /\ FsInit
    /\ cl_variant \in {"common", "service"}
    /\ cl_job \in CleanupJobs
    /\ cl_variant = "service" => cl_job.given
    /\ \E aged \in [{"tmp_dir/old_id", "tmp_dir/file", "tests_dir/old_tank_id",
                     "tests_dir/stpd-cache/file", "netort_dir/downloaded_resource"}
                        -> {Absent} \cup 0..MaxCtime] :
       \E link \in {Absent, 0} :
          cl_files = [p \in Paths |-> IF p \in DOMAIN aged THEN aged[p]
                                      ELSE IF p = "tmp_dir/link" THEN link
                                      ELSE 0]
    /\ cl_forbiden = forbiden_dirs(cl_files, cl_job)
    /\ cl_step = 1
    /\ cl_loop = FALSE
    /\ cl_objects = {}
    /\ cl_deleted = {}
    /\ StateInit
    /\ LateInit

NextCleanup ==
    \/ do_clean_collect
    \/ do_clean_next
    \/ do_clean_return

SpecCleanup == InitCleanup /\ [][NextCleanup]_vars

(***************************************************************************)
(* State called by the control loop and the healthcheck thread at once,    *)
(* and State called by one thread.                                         *)
(***************************************************************************)
NextState ==
    \/ State_error_step
    \/ State_cleanup_iterate_step
    \/ State_cleanup_assign_step
    \/ State_cleanup_raise_step
    \/ State_read

SpecState == Init /\ [][NextState]_vars

InitStateCalls ==
    /\ AgentInit
    /\ AuxInit
    /\ ChopInit
    /\ StatusInit
    /\ FsInit
    /\ CleanupInit
    /\ st_errors = << >>
    /\ st_now = 0
    /\ st_threads = {"control loop"}
    /\ th_pc = [t \in StateThreads |-> "idle"]
    /\ th_stage = [t \in StateThreads |-> "a"]
    /\ th_values = [t \in StateThreads |-> << >>]
    /\ st_last = StateCall("none", "control loop", "a", "c", FALSE)
    /\ st_seen = [errors |-> {}, ok |-> TRUE]
    /\ LateInit

NextStateCalls ==
    \/ State_error_step
    \/ State_cleanup_iterate_step
    \/ State_cleanup_assign_step
    \/ State_read

SpecStateCalls == InitStateCalls /\ [][NextStateCalls]_vars

(***************************************************************************)
(* An agent service created from any configuration, beside any agent id    *)
(* file, and registered.                                                   *)
(***************************************************************************)
EarlyInit ==
    /\ AgentInit
    /\ AuxInit
    /\ ChopInit
    /\ StatusInit
    /\ FsInit
    /\ CleanupInit
    /\ StateInit

InitRegister ==
    /\ EarlyInit
    /\ LabelsInit
    /\ UploaderInit
    /\ ApiInit
    /\ ParseInit
    /\ ClientInit
    /\ reg_config \in Configs
    /\ reg_file \in FileContents
    /\ reg_agent = create_loadtesting_agent_service(reg_config)
    /\ reg_registered = FALSE
    /\ reg_calls = << >>
    /\ reg_last = "none"

NextRegister == register

SpecRegister == InitRegister /\ [][NextRegister]_vars

(***************************************************************************)
(* parse_job_status of any finish status file.                             *)
(***************************************************************************)
InitParse ==
    /\ EarlyInit
    /\ LabelsInit
    /\ UploaderInit
    /\ ApiInit
    /\ RegInit
    /\ ClientInit
    /\ pjs_json \in StatusFiles
    /\ pjs_result = NotParsed

NextParse == parse_job_status_call

SpecParse == InitParse /\ [][NextParse]_vars

(***************************************************************************)
(* The tank client driven by execute_job, job after job.                   *)
(***************************************************************************)
InitClient ==
    /\ EarlyInit
    /\ LabelsInit
    /\ UploaderInit
    /\ ApiInit
    /\ RegInit
    /\ ParseInit
    /\ ClientInit

NextClient ==
    \/ tc_prepare_job
    \/ tc_serve_run_signal
    \/ tc_leave_loop
    \/ tc_serve_finished
    \/ tc_finally
    \/ tc_run_job
    \/ tc_worker_exits
    \/ tc_imbalance

SpecClient == InitClient /\ [][NextClient]_vars

InitApi ==
    /\ EarlyInit
    /\ LabelsInit
    /\ UploaderInit
    /\ RegInit
    /\ ParseInit
    /\ ClientInit
    /\ ApiInit

NextApi ==
    \/ get_health
    \/ shutdown
    \/ healthcheck_enter
    \/ healthcheck_exit
    \/ serve_loop
    \/ serve_wait_for_a_job
    \/ serve_get_job
    \/ serve_pooling_delay
    \/ serve_execute_job
    \/ serve_lt_job_round
    \/ serve_sustain_job
    \/ serve_job_sleep
    \/ serve_finally
    \/ serve_publish_artifacts
    \/ serve_sleep

SpecApi == InitApi /\ [][NextApi]_vars

InitUploader ==
    /\ EarlyInit
    /\ LabelsInit
    /\ RegInit
    /\ ParseInit
    /\ ClientInit
    /\ ApiInit
    /\ UploaderInit

NextUploader ==
    \/ uploader_get
    \/ _send_with_retry
    \/ uploader_stop

SpecUploader == InitUploader /\ [][NextUploader]_vars

InitLabels ==
    /\ EarlyInit
    /\ RegInit
    /\ ParseInit
    /\ ClientInit
    /\ ApiInit
    /\ UploaderInit
    /\ lb_context \in ContextLabelSets
    /\ lb_args \in ArgSets
    /\ lb_max \in MaxLabelsSizes
    /\ lb_done = FALSE
    /\ lb_result = NotPrepared

NextLabels == prepare_log_record

SpecLabels == InitLabels /\ [][NextLabels]_vars

NextReporter ==
    \/ source_put
    \/ tick
    \/ worker_report
    \/ run_finally

SpecReporter == InitReporter /\ [][NextReporter]_vars

\* the latest report() was an iteration of the worker thread that served every
\* handler without backoff, no handle() call raised, and the queues are still empty
ReportedWithoutError ==
    /\ ~last_report.force
    /\ last_report.failed = {}
    /\ \A q \in SourceQueues : sources[q] = << >>
    /\ \A h \in Handlers :
          handler_managers[h].kind = "_DummyAttemptManager" => h \in last_report.attempted

\* the worker thread keeps iterating until Reporter.run is left, and the handlers
\* do not raise for ever
FairSpecReporter == SpecReporter /\ []<>(stop_set \/ ReportedWithoutError)

(***************************************************************************)
(* Properties.                                                             *)
(***************************************************************************)
\* the positions of the control loop inside execute_job's try statement
ExecutePcs ==
    {"await_tank_is_ready", "prepare_job", "serve_lt_job", "serve_lt_signal",
     "get_job_status", "except", "finally"}

\* the positions inside serve_lt_job's loop
MonitorPcs == {"serve_lt_job", "serve_lt_signal", "get_job_status"}

\* C1: whichever way execute_job ends (normal completion, a handled or an
\* unhandled exception), the last two calls it makes on tank_client are
\* stop_job() and then finish(), and no worker is left behind.
C1_ExecuteJobEndsWithStopThenFinish ==
    [][pc' \notin ExecutePcs /\ pc \in ExecutePcs
         => (/\ pc = "finally"
             /\ tank_calls' = <<"stop_job", "finish">>
             /\ tank_worker' = NoWorker
             /\ background_workers' = 0)]_vars

\* execute_job has ended with an exception none of its clauses handles, after
\* stop_job and finish
C1_Witness ==
    /\ pc = "sustain_service"
    /\ exc = "ValueError"
    /\ job.id # 0
    /\ tank_calls = <<"stop_job", "finish">>

\* C2: execute_job's except clause claims, for JobStoppedError, STOPPED (exit
\* code 0); for CancellationRequest, FAILED with INTERRUPTED; for
\* FailedPrecondition or NotFound, FAILED with FAILED; for TankError, FAILED
\* with 'internal'.  A STOP signal calls stop_job and raises JobStoppedError;
\* a prepare_job refused because a session runs raises TankError.
C2_ExceptionIsClaimedAsStatus ==
    /\ [][pc = "except" /\ pc' = "finally" /\ exc \in HandledByExecuteJob
            => (/\ rpc'.op = "claim_job_status"
                /\ rpc'.job = job.id
                /\ job'.last_status.status = rpc'.status
                /\ job'.last_status.error_type = rpc'.error_type
                /\ exc = "JobStoppedError"
                     => rpc'.status = "STOPPED" /\ job'.last_status.exit_code = 0
                /\ exc = "CancellationRequest"
                     => rpc'.status = "FAILED" /\ rpc'.error_type = "INTERRUPTED"
                /\ exc \in {"FailedPrecondition", "NotFound"}
                     => rpc'.status = "FAILED" /\ rpc'.error_type = "FAILED"
                /\ exc = "TankError"
                     => rpc'.status = "FAILED" /\ rpc'.error_type = INTERNAL_ERROR_TYPE)]_vars
    /\ [][pc = "serve_lt_signal" /\ pc' # pc /\ rpc'.res = "STOP"
            => (/\ exc' = "JobStoppedError"
                /\ pc' = "except"
                /\ tank_calls'[Len(tank_calls')] = "stop_job")]_vars
    /\ [][pc = "prepare_job" /\ pc' # pc
            /\ is_test_session_running(tank_worker, lock_dir_locked)
            => exc' = "TankError" /\ pc' = "except"]_vars

\* a STOP signal has been served: stop_job was called and STOPPED claimed
C2_Witness ==
    /\ pc = "finally"
    /\ exc = "none"
    /\ rpc = ClaimCall(job, "STOPPED", "None", "ok")
    /\ job.last_status = from_status("STOPPED", "None")
    /\ job.last_status.exit_code = 0
    /\ tank_calls[Len(tank_calls)] = "stop_job"

\* C3: while serve_lt_job monitors a job, CancellationRequest is raised only
\* when the cancellation level is FORCED; with GRACEFUL the loop keeps
\* polling until the job reaches a finished status.
C3_MonitorRaisesOnlyWhenForced ==
    [][pc' = "except" /\ exc' = "CancellationRequest" /\ pc \in MonitorPcs
         => current_type = FORCED]_vars

ClaimAfterFinished ==
    /\ pc' # pc \/ upl_idx' # upl_idx
    /\ rpc'.op = "claim_job_status"
    /\ rpc'.job \in finished_claimed

\* C5 as stated: once a finished status has been claimed for a job, every
\* later status claim for that job carries a finished status.
C5_LaterClaimsAreFinished ==
    [][ClaimAfterFinished => rpc'.status \in FinishedStatuses]_vars

\* C5: once a finished status has been claimed for a job, every later claim
\* for that job carries a finished status or is the post-job error report of
\* publish_artifacts (JOB_STATUS_UNSPECIFIED with ARTIFACT_UPLOADING_FAILED),
\* and the job's own status stays a finished one.
C5_LaterClaimsAreFinishedOrPostJob ==
    /\ [][ClaimAfterFinished
            => (\/ rpc'.status \in FinishedStatuses
                \/ /\ pc = "uploader"
                   /\ rpc'.status = "JOB_STATUS_UNSPECIFIED"
                   /\ rpc'.error_type = "ARTIFACT_UPLOADING_FAILED"
                   /\ job' = job)]_vars
    /\ [][job.id # 0 /\ job'.id = job.id /\ finished(job.last_status)
            => finished(job'.last_status)]_vars

\* a post-job error has been reported for a finished job
C5_Witness ==
    /\ pc = "uploader"
    /\ rpc.op = "claim_job_status"
    /\ rpc.status = "JOB_STATUS_UNSPECIFIED"
    /\ rpc.job = job.id
    /\ job.id \in finished_claimed
    /\ finished(job.last_status)

\* C6: serve leaves its loop only when cancellation is set: it returns only
\* then, and no exception of an iteration gets out of it.
C6_ServeLeavesOnlyOnCancellation ==
    /\ pc = "stopped" => is_set(GRACEFUL)
    /\ pc # "raised"

\* an iteration has ended with an exception and serve goes round again
C6_Witness ==
    /\ pc = "serve"
    /\ exc = "RuntimeError"
    /\ ~is_set(GRACEFUL)

PrepareJobCall ==
    \/ pc = "prepare_job" /\ pc' # pc
    \/ pc = "tank_idle" /\ pc' = "tank_prepare_job"

\* TRUE when a test session is running: the agent's worker is alive and
\* its job is being prepared or shot, or the agent has no live worker and
\* the lock directory is held
SessionRunning ==
    \/ is_alive(tank_worker) /\ tank_worker.status \in {"PREPARING", "RUNNING"}
    \/ ~is_alive(tank_worker) /\ lock_dir_locked

\* C8: prepare_job called while a test session is running (a live
\* unfinished worker, or the lock directory held) raises TankError and
\* leaves the worker, its event, its background workers and the new job as
\* they are; so a worker is never replaced while a session is running, and
\* at most one job is in PREPARING_TEST or TESTING.
C8_PrepareWhileRunningIsRefused ==
    /\ [][PrepareJobCall /\ SessionRunning
            => (/\ exc' = "TankError"
                /\ tank_worker' = tank_worker
                /\ shooting_event' = shooting_event
                /\ background_workers' = background_workers
                /\ job'.tank_job_id = 0)]_vars
    /\ [][PrepareJobCall /\ tank_worker' # tank_worker => ~SessionRunning]_vars

\* a second job was refused while the worker of the first one is alive
C8_Witness ==
    /\ pc = "tank_prepare_job"
    /\ exc = "TankError"
    /\ is_alive(tank_worker)
    /\ tank_worker.status \in {"PREPARING", "RUNNING"}
    /\ job.id # tank_worker.test_id
    /\ job.tank_job_id = 0

C10_LevelNeverDecreases ==
    /\ [][current_type' >= current_type]_vars
    /\ [](forced_notified => raise_on_set(FORCED))

\* the latest notify call, made after one with FORCED, passed GRACEFUL
C10_Witness ==
    /\ forced_notified
    /\ cancel_lock = "free"
    /\ notify_level = GRACEFUL
    /\ current_type = FORCED

\* C11: termination signals drive cancellation as a three-step machine: the
\* first signal sets the level to GRACEFUL, the second sets it to FORCED,
\* and a third or later signal changes nothing in Cancellation.
C11_SignalsStepCancellation ==
    /\ [](cancel_lock = "free"
            => current_type = IF signals = 0 THEN NOT_SET
                              ELSE IF signals = 1 THEN GRACEFUL ELSE FORCED)
    /\ [][signals' # signals /\ signals >= 2 => UNCHANGED cancellation_vars]_vars

\* a third signal has been handled
C11_Witness ==
    /\ signals = 3
    /\ cancel_lock = "free"
    /\ current_type = FORCED

\* TRUE of a step in which the innermost open scope is left by an exception
ScopeLeftByException ==
    /\ Len(obs_frames') < Len(obs_frames)
    /\ obs_last'.kind \in {"suppressed", "propagated"}

\* TRUE of a step that is an observe call reaching or refusing its body
ScopeEntered ==
    /\ obs_exc = "none"
    /\ obs_last'.kind \in {"entered", "refused"}
    /\ Len(obs_frames') > Len(obs_frames) \/ obs_exc' # "none"

\* TRUE of a step in which the innermost open scope is left without an
\* exception
ScopeExited ==
    /\ Len(obs_frames') < Len(obs_frames)
    /\ obs_last'.kind = "exited"

\* the errors of a stage
ErrorsOf(errors, stage) == {e \in errors : e.stage = stage}

\* C12: an exception e leaving a scope of observe(stage, suppress, error,
\* critical): a CancellationRequest propagates with no error stored and no
\* notify, whatever suppress says; otherwise the error is stored iff e is
\* covered by error, Cancellation is notified at GRACEFUL iff e is covered by
\* critical, and e is swallowed iff it is covered by suppress, each of the
\* three whatever the other two are.
C12_ObserveOutcomes ==
    [][ScopeLeftByException
         => LET f == obs_frames[Len(obs_frames)]
                e == obs_last'.exc IN
            IF e = "CancellationRequest"
               THEN /\ obs_exc' = e
                    /\ active_errors' = active_errors
                    /\ UNCHANGED cancellation_vars
               ELSE /\ active_errors' =
                          IF ({e, "Exception"} \cap f.error) # {}
                             THEN active_errors \cup {[stage |-> f.stage, message |-> e]}
                             ELSE active_errors
                    /\ current_type' =
                          IF ({e, "Exception"} \cap f.critical) # {} /\ current_type = NOT_SET
                             THEN GRACEFUL
                             ELSE current_type
                    /\ obs_exc' = IF ({e, "Exception"} \cap f.suppress) # {} THEN "none" ELSE e]_vars

\* an exception covered by suppress, error and critical has been swallowed:
\* its error is stored and the observer has notified Cancellation
C12_Witness ==
    /\ obs_last.kind = "suppressed"
    /\ obs_exc = "none"
    /\ [stage |-> obs_last.stage, message |-> obs_last.exc] \in active_errors
    /\ current_type = GRACEFUL
    /\ signals = 0

\* C13: an observe call made while cancellation is FORCED raises
\* CancellationRequest at once: no scope is opened (the body does not run),
\* the stage is not pushed on the stage stack and no error is recorded.
C13_ForcedRefusesEntry ==
    [][ScopeEntered /\ current_type = FORCED
         => (/\ obs_exc' = "CancellationRequest"
             /\ obs_last'.kind = "refused"
             /\ obs_frames' = obs_frames
             /\ state_stack' = state_stack
             /\ active_errors' \subseteq active_errors)]_vars

\* an observe call was refused inside an open scope
C13_Witness ==
    /\ obs_last.kind = "refused"
    /\ obs_exc = "CancellationRequest"
    /\ current_type = FORCED
    /\ obs_frames # << >>

\* C14 as stated: after a normal exit from observe(stage), State holds no
\* error of that stage, and the errors of other stages are as they were.
C14_NoStageErrorAfterExit ==
    [][ScopeExited
         => (/\ ErrorsOf(active_errors', obs_last'.stage) = {}
             /\ \A st \in Stages \ {obs_last'.stage} :
                  ErrorsOf(active_errors', st) = ErrorsOf(active_errors, st))]_vars

\* C14: an observe(stage) call removes the errors of that stage when it is
\* entered and leaves the errors of other stages as they were; a normal exit
\* changes no error; so after a normal exit State holds no error of that
\* stage unless one was stored while the scope was open.
C14_StageErrorsClearedOnEntry ==
    /\ [][ScopeEntered
            => (/\ ErrorsOf(active_errors', obs_last'.stage) = {}
                /\ \A st \in Stages \ {obs_last'.stage} :
                     ErrorsOf(active_errors', st) = ErrorsOf(active_errors, st))]_vars
    /\ [][ScopeExited
            => (/\ active_errors' = active_errors
                /\ ~obs_frames[Len(obs_frames)].stored
                     => ErrorsOf(active_errors', obs_last'.stage) = {})]_vars

\* a scope has been left without an exception while State holds an error of
\* the other stage and none of its own
C14_Witness ==
    /\ obs_last.kind = "exited"
    /\ ErrorsOf(active_errors, obs_last.stage) = {}
    /\ \E e \in active_errors : e.stage # obs_last.stage

(***************************************************************************)
(* Properties of the Reporter.                                             *)
(***************************************************************************)
\* a step of report(): the clock and the producers stand still
ReportStep == clock' = clock /\ next_item' = next_item

\* the data handle() of handler h accepted in this step
Accepted(h) == {delivered'[h][k] : k \in (Len(delivered[h]) + 1)..Len(delivered'[h])}

\* a message whose age exceeds the retention period
Stale(m) == clock - m.ts > RetentionPeriod

\* item i has been handled to the end for handler h: accepted, or dropped
Settled(h, i) == \E d \in Range(delivered[h]) \cup lost[h] : d.id = i

C16_RetentionDropsStale ==
    [][ReportStep => \A h \in Handlers :
          /\ \A k \in DOMAIN unsent[h] :
                IF Stale(unsent[h][k])
                   THEN /\ unsent[h][k].data \notin last_report'.offered[h]
                        /\ h \in last_report'.attempted =>
                              /\ unsent[h][k].data \notin DataOf(unsent'[h])
                              /\ unsent[h][k].data \in lost'[h]
                   ELSE h \in last_report'.attempted =>
                           unsent[h][k].data \in last_report'.offered[h]
          /\ lost[h] \subseteq lost'[h]
          /\ lost[h] \cap (last_report'.offered[h] \cup DataOf(unsent'[h])) = {}
    ]_vars

\* the only item so far has been dropped for one handler, which overflow cannot
\* do, and accepted by another
C16_Witness ==
    /\ next_item = 2
    /\ \E h \in Handlers : \E g \in Handlers :
          /\ lost[h] # {}
          /\ Len(delivered[g]) = 1

\* the messages handler h could have kept in this step: those of its deque and
\* those drained from the queues now
Candidates(h) ==
    Range(unsent[h])
       \cup UNION {{[ts |-> clock, data |-> sources[q][k]] : k \in DOMAIN sources[q]} :
                      q \in SourceQueues}

\* the messages of handler h that fell off its deque in this step
Evicted(h) ==
    {m \in Candidates(h) :
        /\ m.data \notin DataOf(unsent'[h]) \cup Accepted(h)
        /\ ~(h \in last_report'.attempted /\ Stale(m))}

\* C17: a handler's unsent deque never holds more than max_unsent_size items;
\* items fall off it only when it is full, and every item that falls off is at
\* least as old as every item kept.
C17_UnsentBounded ==
    /\ [](\A h \in Handlers : Len(unsent[h]) <= MaxUnsentSize)
    /\ [][ReportStep => \A h \in Handlers :
             /\ Evicted(h) # {} => Len(unsent'[h]) = MaxUnsentSize
             /\ \A e \in Evicted(h) : \A k \in DOMAIN unsent'[h] : e.ts <= unsent'[h][k].ts
             /\ Evicted(h) \subseteq {m \in Candidates(h) : m.data \in lost'[h]}
       ]_vars

\* before any time has passed an item has fallen off a full deque
C17_Witness ==
    /\ clock = 0
    /\ \E h \in Handlers : lost[h] # {} /\ Len(unsent[h]) = MaxUnsentSize

\* the timestamp of the message of handler h that carries the data d in this step
TsOf(h, d) == (CHOOSE m \in Candidates(h) : m.data = d).ts

\* the position of the data d in a sequence, 0 when it is not there
PositionIn(s, d) == IF d \in Range(s) THEN CHOOSE k \in DOMAIN s : s[k] = d ELSE 0

\* C18 as stated: for each handler the items of one source queue are accepted in
\* the order in which they were enqueued, also when chunks fail and are retried.
C18_FifoDeliveryPerQueue ==
    \A h \in Handlers : \A a \in DOMAIN delivered[h] : \A b \in DOMAIN delivered[h] :
        (a < b /\ delivered[h][a].source = delivered[h][b].source)
           => delivered[h][a].id < delivered[h][b].id

\* C18, amended: what one report() gets accepted by a handler is accepted in
\* non-decreasing timestamp order and, for the items of one source queue, in the
\* order in which they were enqueued; an item accepted now has overtaken an
\* earlier item of its queue only if handle() raised for that item's chunk in
\* this report, or the item has been dropped.
C18_OrderWithinReport ==
    [][ReportStep => \A h \in Handlers :
          /\ \A a \in DOMAIN delivered'[h] : \A b \in DOMAIN delivered'[h] :
                (Len(delivered[h]) < a /\ a < b) =>
                   /\ TsOf(h, delivered'[h][a]) <= TsOf(h, delivered'[h][b])
                   /\ delivered'[h][a].source = delivered'[h][b].source
                         => delivered'[h][a].id < delivered'[h][b].id
          /\ \A j \in Accepted(h) : \A i \in 1..(j.id - 1) :
                LET earlier == [id |-> i, source |-> j.source]
                IN  earlier \in Range(delivered[h]) \cup lost[h] \cup {m.data : m \in Candidates(h)}
                       => \/ /\ earlier \in Range(delivered'[h])
                             /\ PositionIn(delivered'[h], earlier) < PositionIn(delivered'[h], j)
                          \/ earlier \in last_report'.offered[h] \ Accepted(h)
                          \/ earlier \in lost'[h]
    ]_vars

\* the latest report handed both items of the first queue to a handler, which
\* accepted them in the order in which they were enqueued
C18_Witness ==
    \E h \in Handlers :
        /\ Cardinality(last_report.offered[h]) = 2
        /\ last_report.failed = {}
        /\ Len(delivered[h]) = 2
        /\ delivered[h][1].id = 1 /\ delivered[h][2].id = 2
        /\ delivered[h][1].source = delivered[h][2].source

\* the handler's next attempt lies in the future
BackoffActive(h) ==
    /\ handler_managers[h].kind = "_AttemptManager"
    /\ handler_managers[h].next_attempt > clock

\* the data report() drains from the queues in this step
DrainedNow == UNION {Range(sources[q]) : q \in SourceQueues}

\* the data handler h gets to see when this step serves it
Servable(h) == {m.data : m \in {c \in Candidates(h) : ~Stale(c)}}

\* C19: a report without force does not call handle() of a handler whose backoff
\* is active: the handler's deque keeps what it held, the drained records are
\* appended to it (the oldest items fall off when it is full) and its backoff is
\* left as it was; every other handler is served; a forced report serves every
\* handler.
C19_BackoffSkipsHandler ==
    [][(ReportStep /\ sources' = [q \in SourceQueues |-> << >>]) => \A h \in Handlers :
          IF BackoffActive(h) /\ ~stop_set'
             THEN /\ h \notin last_report'.attempted
                  /\ last_report'.offered[h] = {}
                  /\ delivered'[h] = delivered[h]
                  /\ handler_managers'[h] = handler_managers[h]
                  /\ DrainedNow \subseteq DataOf(unsent'[h]) \cup lost'[h]
                  /\ Len(unsent[h]) + Cardinality(DrainedNow) <= MaxUnsentSize =>
                        /\ SubSeq(unsent'[h], 1, Len(unsent[h])) = unsent[h]
                        /\ DataOf(unsent'[h]) = DataOf(unsent[h]) \cup DrainedNow
                        /\ Len(unsent'[h]) = Len(unsent[h]) + Cardinality(DrainedNow)
             ELSE /\ h \in last_report'.attempted
                  /\ last_report'.offered[h] = Servable(h)
    ]_vars

\* the latest report was not forced and skipped a handler in backoff: the item it
\* drained is in that handler's deque and has been accepted by another handler
C19_Witness ==
    /\ ~last_report.force
    /\ \E h \in Handlers : \E g \in Handlers :
          /\ h \notin last_report.attempted
          /\ g \in last_report.attempted
          /\ handler_managers[h].next_attempt > clock
          /\ \E k \in DOMAIN unsent[h] :
                /\ unsent[h][k].ts = clock
                /\ unsent[h][k].data \in last_report.offered[g]
                /\ unsent[h][k].data \in Range(delivered[g])

\* C20: for a handler with an _AttemptManager, a report that serves it and in which
\* its handle() never raises (also when there was nothing to send) resets the
\* backoff, so that the next report may attempt the handler at once; a report in
\* which its handle() raises puts the next attempt the current delay ahead and
\* multiplies the delay, up to the maximum.
C20_BackoffBookkeeping ==
    [][ReportStep => \A h \in Handlers :
          (h \in last_report'.attempted /\ handler_managers[h].kind = "_AttemptManager") =>
             IF h \in last_report'.failed
                THEN /\ handler_managers'[h].next_attempt
                           = clock + Min(handler_managers[h].current_delay, max_delay)
                     /\ handler_managers'[h].current_delay
                           = Min(handler_managers[h].current_delay * multiplier, max_delay)
                ELSE /\ handler_managers'[h].next_attempt <= clock
                     /\ handler_managers'[h].current_delay = base_delay
    ]_vars

(***************************************************************************)
(* Properties of Reporter.run.                                             *)
(***************************************************************************)
\* a step in which a report() drains a queue, hands data to a handler or records an
\* attempt
ReportEffect ==
    /\ next_item' = next_item
    /\ <<sources, unsent, delivered, lost, last_report, handler_managers>>'
          # <<sources, unsent, delivered, lost, last_report, handler_managers>>

\* C21: the final report(force=True) of Reporter.run starts only after stop has
\* been set and the worker thread has left its loop, so no report of the worker
\* is in progress or follows; it hands every item waiting in a queue to every
\* handler, whatever the handler's backoff; it is made once, and nothing is
\* reported after it.
C21_FinalReportAfterJoin ==
    /\ [][stop_set' # stop_set =>
             /\ worker_pc = "finished" /\ worker_pc' = "finished"
             /\ run_pc = "joined" /\ run_pc' = "left"
             /\ last_report'.force
             /\ last_report'.attempted = Handlers
             /\ \A h \in Handlers : DrainedNow \subseteq last_report'.offered[h]
             /\ sources' = [q \in SourceQueues |-> << >>]
       ]_vars
    /\ [][ReportEffect => (IF run_pc = "joined" THEN stop_set' ELSE worker_pc = "iteration")]_vars
    /\ [][stop_set => UNCHANGED <<unsent, delivered, lost, last_report, handler_managers,
                                  stop_set, run_vars>>]_vars
    /\ [](stop_set <=> run_pc = "left")
    /\ [][run_pc' = "joined" => (run_pc \in {"stopping", "joined"} /\ worker_pc = "finished")]_vars

\* the scope has been left and the final report handed data to a handler whose
\* backoff was active: the handler failed twice before the clock reached 2
C21_Witness ==
    /\ run_pc = "left"
    /\ clock < base_delay
    /\ \E h \in Handlers :
          /\ last_report.offered[h] # {}
          /\ h \in last_report.failed
          /\ handler_managers[h].current_delay = base_delay * multiplier * multiplier

(***************************************************************************)
(* Properties of _chop.                                                    *)
(***************************************************************************)
RECURSIVE Concatenated(_)
\* the chunks put together again
Concatenated(chunks) ==
    IF chunks = << >> THEN << >> ELSE Head(chunks) \o Concatenated(Tail(chunks))

\* C22: the chunks of _chop(xs, n), put together in order, are xs; no chunk is
\* empty; for n > 0 every chunk but the last has n items and the last has at most
\* n; for n <= 0 a list that is not empty gives one chunk with all the items.
C22_ChopRoundTrip ==
    chop_pc = "returned" =>
       /\ Concatenated(chop_result) = chop_data
       /\ \A k \in DOMAIN chop_result : chop_result[k] # << >>
       /\ chop_size > 0 =>
             \A k \in DOMAIN chop_result :
                IF k < Len(chop_result)
                   THEN Len(chop_result[k]) = chop_size
                   ELSE Len(chop_result[k]) <= chop_size
       /\ (chop_size <= 0 /\ chop_data # << >>) => chop_result = <<chop_data>>

\* _chop returned a full chunk and a shorter last one
C22_Witness ==
    /\ chop_pc = "returned"
    /\ Len(chop_result) = 2
    /\ Len(chop_result[1]) = chop_size
    /\ Len(chop_result[2]) < chop_size

(***************************************************************************)
(* StatusReporter.                                                         *)
(***************************************************************************)
\* a step in which the worker thread's report_tank_status call has ended
WorkerClaimStep ==
    /\ sr_worker_pc = "waiting"
    /\ sr_run_pc = "in_scope"
    /\ <<sr_last, sr_worker_pc>>' # <<sr_last, sr_worker_pc>>

\* C23: when the worker's claim_tank_status fails with FailedPrecondition,
\* NotFound, Unauthorized or Unauthenticated, the worker goes on to call
\* Cancellation.notify with FORCED, and when that call returns Cancellation is
\* at FORCED; the worker calls notify in no other case; when the claim fails
\* with any other error, or returns, the step leaves Cancellation as it was and
\* the worker is back at the wait for its next report.
C23_RejectionNotifiesForced ==
    [][ /\ (WorkerClaimStep /\ sr_last'.outcome \in
                {"FailedPrecondition", "NotFound", "Unauthorized", "Unauthenticated"})
            => (sr_worker_pc' = "rejected")
        /\ (WorkerClaimStep /\ sr_last'.outcome \notin
                {"FailedPrecondition", "NotFound", "Unauthorized", "Unauthenticated"})
            => (sr_worker_pc' = "waiting" /\ UNCHANGED cancellation_vars)
        /\ (sr_worker_pc = "rejected" /\ sr_worker_pc' # "rejected")
            => (sr_worker_pc' = "notifying" /\ cancel_lock' = "reporter"
                /\ notify_level' = FORCED)
        /\ (sr_worker_pc = "notifying" /\ sr_worker_pc' # "notifying")
            => (current_type' = FORCED /\ forced_notified' /\ sr_worker_pc' = "waiting")
        /\ (cancel_lock # "reporter" /\ cancel_lock' = "reporter")
            => (sr_worker_pc = "rejected")
      ]_vars

\* the worker has notified FORCED after a rejected claim and waits for its next
\* report
C23_Witness ==
    /\ sr_last.by = "worker"
    /\ sr_last.outcome = "NotFound"
    /\ sr_worker_pc = "waiting"
    /\ sr_run_pc = "in_scope"
    /\ notify_level = FORCED
    /\ current_type = FORCED
    /\ cancel_lock = "free"

\* C24 as stated: once run has been left, one final claim has been made after the
\* worker thread ended, and it carried STOPPED with Cancellation.explain().
C24_FinalClaimIsStopped ==
    sr_run_pc = "left" =>
        /\ sr_final_claims = 1
        /\ sr_worker_pc = "finished"
        /\ sr_last.by = "run"
        /\ sr_last.claimed = [status |-> "STOPPED", message |-> explain]

\* C24: run's exit makes its final claim only after the worker thread has ended,
\* makes it exactly once, and leaves the scope however the claim ends; the claim
\* carries STOPPED with Cancellation.explain() when State holds no error and
\* ERROR with State.get_summary_message() when it holds one; no status claim
\* follows it.
C24_FinalClaimAfterWorker ==
    [][ /\ (sr_final_claims' # sr_final_claims)
            => (/\ sr_worker_pc = "finished"
                /\ sr_final_claims = 0
                /\ sr_final_claims' = 1
                /\ sr_last'.by = "run"
                /\ sr_last'.claimed =
                      IF active_errors = {}
                      THEN [status |-> "STOPPED", message |-> explain]
                      ELSE [status |-> "ERROR",
                            message |-> [from |-> "State.get_summary_message",
                                         text |-> {e.message : e \in active_errors}]]
                /\ sr_run_pc' = "left")
        /\ (sr_run_pc' = "left") => (sr_final_claims' = 1)
        /\ (sr_run_pc = "left")
            => (sr_last' = sr_last /\ sr_final_claims' = sr_final_claims
                /\ sr_run_pc' = "left")
      ]_vars

\* run has been left after a final claim that carried ERROR and failed
C24_Witness ==
    /\ sr_run_pc = "left"
    /\ sr_final_claims = 1
    /\ sr_last.by = "run"
    /\ sr_last.claimed.status = "ERROR"
    /\ sr_last.outcome = "Exception"

\* C25: report_tank_status claims ERROR with State.get_summary_message() when
\* the resulting status (the argument, or the provider's status when the argument
\* is None or falsy) is STATUS_UNSPECIFIED, READY_FOR_TEST or STOPPED and State
\* holds an error; in every other case it claims the resulting status with the
\* caller's message, whatever State holds.
C25_ErrorOverridesIdleOnly ==
    sr_last.by = "caller" =>
        LET resulting == IF sr_last.status \in {"None", "STATUS_UNSPECIFIED"}
                         THEN provided_status ELSE sr_last.status
            overridden == /\ resulting \in {"STATUS_UNSPECIFIED", "READY_FOR_TEST", "STOPPED"}
                          /\ active_errors # {}
        IN  /\ overridden =>
                sr_last.claimed = [status |-> "ERROR",
                                   message |-> [from |-> "State.get_summary_message",
                                                text |-> {e.message : e \in active_errors}]]
            /\ ~overridden =>
                sr_last.claimed = [status |-> resulting, message |-> sr_last.message]

\* report_tank_status(STOPPED, explain()) was called while State held an error
\* and claimed ERROR
C25_Witness ==
    /\ sr_last.by = "caller"
    /\ sr_last.status = "STOPPED"
    /\ active_errors # {}
    /\ sr_last.claimed.status = "ERROR"

(***************************************************************************)
(* The free-space check and the mutation lock.                             *)
(***************************************************************************)
\* a step of _check_free_space up to the cleanup call or its return
CheckStep == hc_pc = "idle" /\ <<hc_pc, hc_req>>' # <<hc_pc, hc_req>>

C27_ForbiddenNeverDeleted ==
    /\ cl_deleted \cap cl_forbiden = {}
    /\ \A p \in cl_forbiden \cap Paths : cl_files[p] # Absent
    /\ cl_job.given =>
          /\ "tmp_dir/test_data_id" \notin cl_deleted
          /\ "tmp_dir/id" \notin cl_deleted
          /\ cl_job.artifact_dir_path => "tests_dir/tank_id" \notin cl_deleted
    /\ {"tests_dir/stpd-cache", "tests_dir/lunapark"} \cap cl_deleted = {}

\* cleanup() of a FilesystemCleanup built for a job has run all four steps and
\* has deleted old directories of tmp_dir and tests_dir and the cached files
C27_Witness ==
    /\ cl_step > Len(CleanupSteps)
    /\ cl_job.given
    /\ cl_job.artifact_dir_path
    /\ {"tmp_dir/old_id", "tests_dir/old_tank_id", "tests_dir/stpd-cache/file",
        "netort_dir/downloaded_resource"} \subseteq cl_deleted

(***************************************************************************)
(* State.                                                                  *)
(***************************************************************************)
\* the step in which the cleanup call of thread t takes effect and returns
CleanupReturns(t) ==
    /\ th_pc[t] = "cleanup"
    /\ th_pc'[t] = "idle"
    /\ st_last'.op = "cleanup"
    /\ ~st_last'.raised

\* C28: with the control loop and the healthcheck thread calling State at once,
\* a cleanup(s) call changes nothing about the errors of other stages: every
\* error of another stage stored when the cleanup takes effect is still stored
\* after it (never lost), and no error of another stage is stored after it that
\* was not stored before it (never resurrected).
C28_CleanupKeepsOtherStages ==
    [][ \A t \in StateThreads :
          CleanupReturns(t) =>
             /\ \A k \in DOMAIN st_errors :
                   (st_errors[k].stage # th_stage[t])
                      => (k \in DOMAIN st_errors' /\ st_errors'[k] = st_errors[k])
             /\ \A k \in DOMAIN st_errors' :
                   (st_errors'[k].stage # th_stage[t]) => (k \in DOMAIN st_errors)
      ]_vars

\* C29: an error(stage, message) call leaves exactly one entry with that stage
\* and message, the one of this call, and keeps every entry whose stage or
\* message differs.
C29_OneEntryPerPair ==
    [][ (st_now' # st_now) =>
          LET c == st_last'
              same(e) == e.stage = c.stage /\ e.message = c.message
          IN  /\ Cardinality({k \in DOMAIN st_errors' : same(st_errors'[k])}) = 1
              /\ \A k \in DOMAIN st_errors' :
                    same(st_errors'[k]) => (st_errors'[k].updated_at = st_now')
              /\ \A k \in DOMAIN st_errors :
                    ~same(st_errors[k])
                       => (\E j \in DOMAIN st_errors' : st_errors'[j] = st_errors[k])
      ]_vars

\* C30: when one thread calls State, cleanup(s) leaves no error of stage s and
\* leaves every error of another stage as it was, and adds none; ok is true
\* exactly when current_errors() is empty.
C30_CleanupFrame ==
    [][ /\ \A t \in StateThreads :
              CleanupReturns(t) =>
                 /\ \A k \in DOMAIN st_errors' : st_errors'[k].stage # th_stage[t]
                 /\ DOMAIN st_errors' = {k \in DOMAIN st_errors : st_errors[k].stage # th_stage[t]}
                 /\ \A k \in DOMAIN st_errors' : st_errors'[k] = st_errors[k]
        /\ (st_seen' # st_seen) =>
              /\ st_seen'.errors = {st_errors[k] : k \in DOMAIN st_errors}
              /\ st_seen'.ok <=> (st_seen'.errors = {})
      ]_vars

\* errors of both stages were stored and seen, then cleanup("a") removed the one
\* of stage "a" and kept the one of stage "ab"
C30_Witness ==
    /\ st_last.op = "cleanup"
    /\ st_last.stage = "a"
    /\ \E e \in st_seen.errors : e.stage = "a"
    /\ ~st_seen.ok
    /\ DOMAIN st_errors # {}
    /\ \A k \in DOMAIN st_errors : st_errors[k].stage = "ab"

(***************************************************************************)
(* Registration.                                                           *)
(***************************************************************************)
\* the file at agent_id_file holds an agent id: not empty, at most 50 characters
HoldsCachedId ==
    /\ truthy(reg_config.agent_id_file)
    /\ truthy(reg_file)
    /\ Len(reg_file) <= ReadLimit

\* the first register() call has ended
Registered == reg_last # "none"

\* C31: a persistent-external agent (external origin, name and folder_id
\* set) whose agent_id_file holds a cached id is, after register(), under
\* that id with no call made on agent_client when no_cache is false; when
\* no_cache is true the only call made is register_external_agent(folder_id,
\* name) and the id is the one it issued, not the cached one.
C31_CachedIdIffCacheAllowed ==
    (Registered /\ is_persistent_external_agent(reg_agent) /\ HoldsCachedId)
    => /\ reg_last = "returned"
       /\ ~reg_config.no_cache
            => (reg_agent.id = reg_file /\ reg_calls = << >>)
       /\ reg_config.no_cache
            => /\ reg_calls = <<register_external_agent(reg_config.folder_id,
                                                        reg_config.agent_name)>>
               /\ reg_agent.id \in IssuedIds
               /\ reg_agent.id # reg_file

\* a persistent-external agent has registered under the id its file held
C31_Witness ==
    /\ Registered
    /\ is_persistent_external_agent(reg_agent)
    /\ HoldsCachedId
    /\ ~reg_config.no_cache
    /\ reg_agent.id = "cached-id"
    /\ reg_calls = << >>

\* C32: after register(), a provider-created agent has made the one call
\* register_agent(); an external agent for which no cached id is read (the
\* cache is read for a persistent-external agent only) has made the one call
\* register_external_agent(folder_id, name) if it is persistent-external,
\* has made no call and has no id if it is anonymous-external, and has got
\* AgentOriginError otherwise.
C32_RegistrationByKind ==
    Registered
    => LET cached == /\ is_persistent_external_agent(reg_agent)
                     /\ loads_cached_id(use_cached_agent_id(reg_config),
                                        reg_config.agent_id_file, reg_file)
       IN  /\ reg_agent.origin = "COMPUTE_LT_CREATED"
                => (reg_calls = <<register_agent>> /\ reg_last = "returned")
           /\ (is_persistent_external_agent(reg_agent) /\ ~cached)
                => /\ reg_calls = <<register_external_agent(reg_config.folder_id,
                                                            reg_config.agent_name)>>
                   /\ reg_last = "returned"
           /\ is_anonymous_external_agent(reg_agent)
                => (reg_calls = << >> /\ ~truthy(reg_agent.id) /\ reg_last = "returned")
           /\ (is_external(reg_agent) /\ ~is_persistent_external_agent(reg_agent)
                 /\ ~is_anonymous_external_agent(reg_agent))
                => (reg_calls = << >> /\ reg_last = "AgentOriginError")

C34_TerminalClaimAccepted ==
    [][(pc = "serve_lt_job" /\ done /\ pc' = "finally")
         => /\ rpc.op = "claim_job_status"
            /\ rpc.job = job.id
            /\ rpc.status \in FinishedStatuses
            /\ rpc.res = "ok"]_vars

\* C35: whenever execute_job comes to its end, by return or with an
\* exception in flight, job.last_status is a finished status and a finished
\* status has been claimed for the job.
C35_EndsWithFinishedStatus ==
    pc = "finally" => (finished(job.last_status) /\ job.id \in finished_claimed)

(***************************************************************************)
(* The tank client under execute_job.                                      *)
(***************************************************************************)
\* how often the client did c since the job's prepare_job
TimesDone(c) == Cardinality({i \in DOMAIN tc_log : tc_log[i] = c})

\* the RUN_IN signals of this job whose secs did not exceed sleep_time
RunNowSignals == {i \in DOMAIN tc_signals : tc_signals[i] <= sleep_time}

\* C36: for the job execute_job works on, once at least one RUN_IN signal with secs
\* <= sleep_time was served, however many, the start event has been set once
\* and each background uploader of the job has been started exactly once;
\* with RUN_IN signals beyond sleep_time only, nothing has been started; and
\* run_job called with no job in hand fails with TankError.
C36_StartedExactlyOnce ==
    /\ (tc_pc \in {"monitor", "finally"} /\ RunNowSignals # {})
         => /\ TimesDone(Did("set", Nobody)) = 1
            /\ TimesDone(Did("start", TrailUploader(tc_job))) = 1
            /\ TimesDone(Did("start", MonitoringUploader(tc_job))) = 1
    /\ (tc_pc = "monitor" /\ RunNowSignals = {})
         => /\ tc_event = "clear"
            /\ tc_started = {}
    /\ (tc_pc = "idle" /\ tc_last.op = "run_job") => tc_last.exc = "TankError"

\* the position of the first and of the last thing of kind op in a log
FirstOf(log, op) ==
    IF \E i \in DOMAIN log : log[i].op = op
    THEN CHOOSE i \in DOMAIN log : log[i].op = op /\ \A k \in 1..(i - 1) : log[k].op # op
    ELSE Len(log) + 1
LastOf(log, op) ==
    IF \E i \in DOMAIN log : log[i].op = op
    THEN CHOOSE i \in DOMAIN log :
            log[i].op = op /\ \A k \in (i + 1)..Len(log) : log[k].op # op
    ELSE 0

\* C37: a finish() call stops the generator worker, then finishes every
\* background uploader, then runs every finalizer, then clears the
\* references; a second finish() of the same job invokes no uploader and no
\* finalizer, so that no finalizer of the job is run more than once.
C37_FinishOnceInOrder ==
    /\ tc_finishes > 0
         => /\ tc_last_finish[1] = Did("stop_job", Nobody)
            /\ LastOf(tc_last_finish, "stop_job") = 1
            /\ LastOf(tc_last_finish, "finish") < FirstOf(tc_last_finish, "run")
            /\ tc_last_finish[Len(tc_last_finish)] = Did("cleanup", Nobody)
    /\ tc_finishes > 1
         => \A i \in DOMAIN tc_last_finish : tc_last_finish[i].op \notin {"finish", "run"}
    /\ TimesDone(Did("run", ImbalanceUploader(tc_job))) <= 1


\* C38: the admin API reports SHUTDOWN, and /shutdown answers 200, only when
\* the control loop has terminated; while serve() is running /health reports
\* ALIVE or SHUTTING_DOWN and /shutdown answers 102.
C38_ShutdownOnlyWhenStopped ==
    api_response # NoResponse =>
        /\ api_response.state = SHUTDOWN => api_response.pc = "stopped"
        /\ (api_response.route = "shutdown" /\ api_response.pc # "stopped")
               => api_response.status = 102


\* C39: _send_with_retry terminates: one entry is attempted at most
\* api_attempts times, and an entry whose api_attempts attempts all failed,
\* by a transient error or by a non-zero code, makes the uploader interrupt
\* itself.
C39_AtMostApiAttempts ==
    /\ su_attempts <= api_attempts
    /\ (su_attempts = api_attempts /\ su_last \in {"retry", "code", "_Interrupt"})
           => su_interrupted


\* C40: for a bounded max_labels_size the labels of an emitted message are
\* never larger in total than max_labels_size, and once a value did not
\* fit the budget no further label is added.
C40_LabelsWithinBudget ==
    (lb_done /\ lb_max >= 0) =>
        /\ _get_labels_len(lb_result.labels) <= lb_max
        /\ lb_result.context_stopped => lb_result.args_labels = NoLabels

====
